---------------------------- MODULE Spec2Model ----------------------------
(***************************************************************************)
(* Model of the scoring engine of the strategic political donation         *)
(* platform (src/prototype3/scraper.py, src/prototype3/database_schema.py).*)
(*                                                                         *)
(* Numbers.  The program computes with Python floats.  The model computes  *)
(* with exact rationals [n, d] in lowest terms; on the inputs enumerated   *)
(* here the float results of calculate_leverage_score agree with the exact *)
(* ones after its round(.., 2).  None is the value NULL, and a raised      *)
(* ZeroDivisionError is a value of its own, so that an unguarded division  *)
(* is an outcome the model can reach.                                      *)
(*                                                                         *)
(* Tables.  candidates, campaign_finance and impact_scores are sequences   *)
(* of rows in rowid order; the UNIQUE constraint of impact_scores is       *)
(* modelled by the conflict clause of the statement that writes the table  *)
(* (OR REPLACE), not by the data structure.  race_candidates is the set of *)
(* its rows: the program reads it only through its UNIQUE index.           *)
(*                                                                         *)
(* The SELECT of calculate_impact_scores has no ORDER BY.  SQLite returns  *)
(* the finance rows of one candidate either in rowid order or, when it     *)
(* builds an automatic covering index for the LEFT JOIN (its default), in  *)
(* the order of (donation_leverage_score, small_dollar_percentage, rowid), *)
(* NULL first.  join_order is the plan of the build; it never changes.     *)
(***************************************************************************)
EXTENDS Integers, Sequences, FiniteSets

VARIABLES
    candidates,        \* table candidates: rows [fec_candidate_id, incumbent]; id = position
    race_candidates,   \* table race_candidates: the set of rows [race_id, candidate_id]
    campaign_finance,  \* table campaign_finance, rowid order
    impact_scores,     \* table impact_scores, rowid order
    join_order,        \* the plan SQLite uses for the LEFT JOIN of calculate_impact_scores
    args,              \* arguments of a direct call of a scoring function
    result,            \* what that call returned
    elections,         \* table elections: rows [election_date, election_type]; id = position
    races,             \* table races: rows [office, state, district, general_date]; id = position
    issues,            \* table issues: the names of the catalog; id = position
    candidate_issues,  \* table candidate_issues: the set of its rows
    data_sources,      \* table data_sources, rowid order
    district_demographics, \* table district_demographics: the set of its rows
    google_civic_key,  \* whether the scraper was constructed with a Google Civic key
    runs,              \* how many runs of scrape_all_data have started
    pc,                \* scrape_all_data: where the run stands
    exception,         \* the exception that ended the run, "none" if none did
    house_candidates,  \* scrape_all_data: the House records still to be walked
    senate_candidates, \* scrape_all_data: the Senate records still to be walked
    races_by_district, \* scrape_all_data: the dict race_key -> race id, of this run
    senate_races,      \* scrape_all_data: the dict state -> race id, of this run
    fetches            \* what the network served to each source fetch so far

\* the tables written by the ingestion only
ingestvars == <<elections, races, issues, candidate_issues, data_sources,
                district_demographics>>

\* the position and the locals of scrape_all_data, and the record of the network
runvars == <<google_civic_key, runs, pc, exception, house_candidates,
             senate_candidates, races_by_district, senate_races, fetches>>

vars == <<candidates, race_candidates, campaign_finance, impact_scores,
          join_order, args, result, ingestvars, runvars>>

dbvars == <<candidates, race_candidates, campaign_finance, impact_scores, join_order,
            ingestvars>>

(***************************************************************************)
(* Bounds of the model.                                                    *)
(***************************************************************************)
MaxReceipts == 6      \* direct calls: receipts range over -1 .. MaxReceipts
MaxFinance == 2       \* rows of campaign_finance

(***************************************************************************)
(* Python values.                                                          *)
(***************************************************************************)
NULL == [null |-> TRUE]
ZeroDivisionError == [exc |-> "ZeroDivisionError"]

\* a Python str: the sequence of its characters
Str(chars) == [s |-> chars]

IsNull(x) == x = NULL
IsExc(x) == x = ZeroDivisionError

Abs(k) == IF k < 0 THEN -k ELSE k

RECURSIVE GCD(_, _)
GCD(a, b) == IF b = 0 THEN a ELSE GCD(b, a % b)

\* the rational n/d (d > 0) in lowest terms
Rat(n, d) == LET g == GCD(Abs(n), d) IN [n |-> n \div g, d |-> d \div g]
Num(k) == [n |-> k, d |-> 1]

RAdd(a, b) == Rat(a.n * b.d + b.n * a.d, a.d * b.d)
RSub(a, b) == Rat(a.n * b.d - b.n * a.d, a.d * b.d)
RMul(a, b) == Rat(a.n * b.n, a.d * b.d)
RLess(a, b) == a.n * b.d < b.n * a.d
RLeq(a, b) == a.n * b.d <= b.n * a.d
RAbs(a) == [n |-> Abs(a.n), d |-> a.d]
\* Python's a / b
RDiv(a, b) == IF b.n = 0 THEN ZeroDivisionError
              ELSE IF b.n > 0 THEN Rat(a.n * b.d, a.d * b.n)
              ELSE Rat(-(a.n * b.d), a.d * (-b.n))
\* Python's min(a, b) and max(a, b): the first argument wins a tie
PyMin(a, b) == IF RLess(b, a) THEN b ELSE a
PyMax(a, b) == IF RLess(a, b) THEN b ELSE a
\* Python's round(x, 2): to the nearest hundredth, a tie to the even one
Round2(x) ==
    LET k == (x.n * 100) \div x.d
        rem == x.n * 100 - k * x.d
    IN  IF 2 * rem < x.d THEN Rat(k, 100)
        ELSE IF 2 * rem > x.d THEN Rat(k + 1, 100)
        ELSE IF k % 2 = 0 THEN Rat(k, 100) ELSE Rat(k + 1, 100)
\* Python's truth value of a number or None
Truthy(x) == ~IsNull(x) /\ x.n # 0

(***************************************************************************)
(* calculate_leverage_score                                                *)
(***************************************************************************)
\* the guard of line 379 with "and" written for "or"
ReachesDivisionUnlessBothMissing(candidate_receipts, opponent_receipts) ==
    ~(RLeq(candidate_receipts, Num(0)) /\ RLeq(opponent_receipts, Num(0)))

\* control passes the guard of line 379 and reaches the division of line 383
ReachesDivision(candidate_receipts, opponent_receipts) ==
    ~(RLeq(candidate_receipts, Num(0)) \/ RLeq(opponent_receipts, Num(0)))

\* the breakpoints compared with <= instead of <
funding_component_inclusive(funding_ratio) ==
    IF RLeq(funding_ratio, Rat(1, 2)) THEN Num(90)
    ELSE IF RLeq(funding_ratio, Rat(3, 4)) THEN Num(75)
    ELSE IF RLeq(funding_ratio, Num(1)) THEN Num(60)
    ELSE IF RLeq(funding_ratio, Rat(3, 2)) THEN Num(40)
    ELSE Num(20)

funding_component(funding_ratio) ==
    IF RLess(funding_ratio, Rat(1, 2)) THEN Num(90)
    ELSE IF RLess(funding_ratio, Rat(3, 4)) THEN Num(75)
    ELSE IF RLess(funding_ratio, Num(1)) THEN Num(60)
    ELSE IF RLess(funding_ratio, Rat(3, 2)) THEN Num(40)
    ELSE Num(20)

\* the distance from the toss-up point taken with its sign
competitiveness_component_signed(competitiveness) ==
    RSub(Num(100), RMul(RSub(Num(50), competitiveness), Num(2)))

competitiveness_component(competitiveness) ==
    RSub(Num(100), RMul(RAbs(RSub(competitiveness, Num(50))), Num(2)))

ClampRound(leverage_score) ==
    Round2(PyMin(Num(100), PyMax(Num(0), leverage_score)))

\* a first draft of the score: the two components added, neither weighted nor clamped
UnweightedLeverageScore(candidate_receipts, opponent_receipts, competitiveness) ==
    IF ~ReachesDivision(candidate_receipts, opponent_receipts) THEN Num(50)
    ELSE Round2(RAdd(funding_component(RDiv(candidate_receipts, opponent_receipts)),
                     competitiveness_component(competitiveness)))

calculate_leverage_score(candidate_receipts, opponent_receipts, competitiveness) ==
    IF ~ReachesDivision(candidate_receipts, opponent_receipts) THEN Num(50)
    ELSE LET funding_ratio == RDiv(candidate_receipts, opponent_receipts)
         IN  IF IsExc(funding_ratio) THEN ZeroDivisionError
             ELSE ClampRound(
                    RAdd(RMul(funding_component(funding_ratio), Rat(6, 10)),
                         RMul(competitiveness_component(competitiveness), Rat(4, 10))))

(***************************************************************************)
(* Direct calls of calculate_leverage_score                                *)
(***************************************************************************)
NoArgs == [fn |-> "none"]
NoResult == [fn |-> "none"]

ReceiptArgs == {Num(k) : k \in -1 .. MaxReceipts}
\* competitiveness values, in thousandths
CompetitivenessMilli ==
    {0, 12500, 25000, 45000, 49999, 50000, 50001, 55000, 75000, 100000, 150000}
CompetitivenessArgs == {Rat(c, 1000) : c \in CompetitivenessMilli}

DBEmpty ==
    /\ candidates = << >>
    /\ race_candidates = {}
    /\ campaign_finance = << >>
    /\ impact_scores = << >>
    /\ elections = << >>
    /\ races = << >>
    /\ issues = << >>
    /\ candidate_issues = {}
    /\ data_sources = << >>
    /\ district_demographics = {}

\* scrape_all_data is not running
RunIdle ==
    /\ google_civic_key = FALSE
    /\ runs = 0
    /\ pc = "idle"
    /\ exception = "none"
    /\ house_candidates = << >>
    /\ senate_candidates = << >>
    /\ races_by_district = << >>
    /\ senate_races = << >>
    /\ fetches = << >>

InitLeverage ==
    /\ DBEmpty
    /\ RunIdle
    /\ join_order = "rowid"
    /\ args \in [fn : {"calculate_leverage_score"}, R : ReceiptArgs,
                 O : ReceiptArgs, C : CompetitivenessArgs]
    /\ result = NoResult

CallLeverageScore ==
    /\ args.fn = "calculate_leverage_score"
    /\ result = NoResult
    /\ result' = [fn |-> "calculate_leverage_score",
                  ret |-> calculate_leverage_score(args.R, args.O, args.C),
                  divided |-> ReachesDivision(args.R, args.O)]
    /\ UNCHANGED <<dbvars, runvars, args>>

NextLeverage == CallLeverageScore

SpecLeverage == InitLeverage /\ [][NextLeverage]_vars

(***************************************************************************)
(* insert_candidate, link_candidate_to_race, insert_campaign_finance       *)
(***************************************************************************)
CandidateIds == 1 .. Len(candidates)

\* Python's "x or default"
Or(x, default) == IF Truthy(x) THEN x ELSE default

\* SQL's a = b: never true of a NULL
SqlEq(a, b) == ~IsNull(a) /\ ~IsNull(b) /\ a = b

\* the lookup answering "no such candidate" whatever the identifier
NoExistingCandidate(fec_id) == {}

\* SELECT id FROM candidates WHERE fec_candidate_id = ?
ExistingCandidate(fec_id) ==
    {i \in CandidateIds : SqlEq(candidates[i].fec_candidate_id, fec_id)}

\* the table after insert_candidate: the UPDATE of the row found, or the INSERT
CandidatesAfterInsert(fec_id, incumbent) ==
    IF ExistingCandidate(fec_id) # {}
    THEN [i \in CandidateIds |->
            IF SqlEq(candidates[i].fec_candidate_id, fec_id)
            THEN [candidates[i] EXCEPT !.incumbent = incumbent]
            ELSE candidates[i]]
    ELSE Append(candidates, [fec_candidate_id |-> fec_id, incumbent |-> incumbent])

\* the id insert_candidate returns: existing[0], or lastrowid
InsertedCandidateId(fec_id) ==
    IF ExistingCandidate(fec_id) # {}
    THEN CHOOSE i \in ExistingCandidate(fec_id) : \A j \in ExistingCandidate(fec_id) : i <= j
    ELSE Len(candidates) + 1

InsertCandidate(fec_id, incumbent) ==
    /\ args = NoArgs
    /\ candidates' = CandidatesAfterInsert(fec_id, incumbent)
    /\ UNCHANGED <<race_candidates, campaign_finance, impact_scores, join_order,
                   args, result, ingestvars, runvars>>

\* INSERT OR IGNORE under UNIQUE(race_id, candidate_id)
LinkCandidateToRace(candidate_id, race_id) ==
    /\ args = NoArgs
    /\ race_candidates' = race_candidates \cup
                            {[race_id |-> race_id, candidate_id |-> candidate_id]}
    /\ UNCHANGED <<candidates, campaign_finance, impact_scores, join_order,
                   args, result, ingestvars, runvars>>

\* the percentage computed whenever there are individual contributions
small_dollar_pct_unguarded(receipts, individual_contribs) ==
    IF RLess(Num(0), individual_contribs)
    THEN LET q == RDiv(individual_contribs, receipts)
         IN  IF IsExc(q) THEN q ELSE RMul(q, Num(100))
    ELSE Num(0)

small_dollar_pct(receipts, individual_contribs) ==
    IF RLess(Num(0), receipts) /\ RLess(Num(0), individual_contribs)
    THEN LET q == RDiv(individual_contribs, receipts)
         IN  IF IsExc(q) THEN q ELSE RMul(q, Num(100))
    ELSE Num(0)

\* the row insert_campaign_finance builds from the fetched figures
\* the row written when a call without an opponent figure compares the
\* candidate with its own receipts
FinanceRowAgainstOwnReceipts(candidate_id, fetched_receipts, fetched_individual, opponent_receipts) ==
    LET receipts == Or(fetched_receipts, Num(0))
        individual_contribs == Or(fetched_individual, Num(0))
        opponent == IF IsNull(opponent_receipts) THEN receipts ELSE opponent_receipts
        compared == Truthy(opponent) /\ RLess(Num(0), opponent)
    IN  [candidate_id |-> candidate_id,
         total_receipts |-> receipts,
         individual_contributions |-> individual_contribs,
         opponent_total_receipts |-> opponent,
         funding_gap |-> IF compared THEN RSub(receipts, opponent) ELSE NULL,
         funding_ratio |-> IF compared THEN RDiv(receipts, opponent) ELSE NULL,
         donation_leverage_score |->
             IF compared
             THEN calculate_leverage_score(receipts, opponent, Num(50))
             ELSE NULL,
         small_dollar_percentage |-> small_dollar_pct(receipts, individual_contribs)]

FinanceRow(candidate_id, fetched_receipts, fetched_individual, opponent_receipts) ==
    LET receipts == Or(fetched_receipts, Num(0))
        individual_contribs == Or(fetched_individual, Num(0))
        compared == Truthy(opponent_receipts) /\ RLess(Num(0), opponent_receipts)
    IN  [candidate_id |-> candidate_id,
         total_receipts |-> receipts,
         individual_contributions |-> individual_contribs,
         opponent_total_receipts |-> opponent_receipts,
         funding_gap |-> IF compared THEN RSub(receipts, opponent_receipts) ELSE NULL,
         funding_ratio |-> IF compared THEN RDiv(receipts, opponent_receipts) ELSE NULL,
         donation_leverage_score |->
             IF compared
             THEN calculate_leverage_score(receipts, opponent_receipts, Num(50))
             ELSE NULL,
         small_dollar_percentage |-> small_dollar_pct(receipts, individual_contribs)]

\* an exception anywhere in the body is caught by line 533: no row is written
FinanceRaises(row) ==
    \/ IsExc(row.funding_ratio)
    \/ IsExc(row.donation_leverage_score)
    \/ IsExc(row.small_dollar_percentage)

InsertCampaignFinance(candidate_id, fetched_receipts, fetched_individual, opponent_receipts) ==
    /\ args = NoArgs
    /\ Len(campaign_finance) < MaxFinance
    /\ LET row == FinanceRow(candidate_id, fetched_receipts, fetched_individual,
                             opponent_receipts)
       IN  campaign_finance' = IF FinanceRaises(row) THEN campaign_finance
                               ELSE Append(campaign_finance, row)
    /\ UNCHANGED <<candidates, race_candidates, impact_scores, join_order,
                   args, result, ingestvars, runvars>>

(***************************************************************************)
(* calculate_impact_scores                                                 *)
(***************************************************************************)
\* the tier boundaries compared with > instead of >=
recommendation_tier_strict(overall_score) ==
    IF RLess(Num(75), overall_score) THEN "High Impact"
    ELSE IF RLess(Num(60), overall_score) THEN "Medium-High Impact"
    ELSE IF RLess(Num(45), overall_score) THEN "Medium Impact"
    ELSE "Lower Priority"

recommendation_tier(overall_score) ==
    IF RLeq(Num(75), overall_score) THEN "High Impact"
    ELSE IF RLeq(Num(60), overall_score) THEN "Medium-High Impact"
    ELSE IF RLeq(Num(45), overall_score) THEN "Medium Impact"
    ELSE "Lower Priority"

\* the percentage doubled without the cap at 100
grassroots_potential_uncapped(small_dollar_percentage) ==
    RMul(Or(small_dollar_percentage, Num(30)), Num(2))

\* the percentage capped but not doubled
grassroots_potential_undoubled(small_dollar_percentage) ==
    PyMin(Num(100), Or(small_dollar_percentage, Num(30)))

grassroots_potential(small_dollar_percentage) ==
    PyMin(Num(100), RMul(Or(small_dollar_percentage, Num(30)), Num(2)))

\* a missing leverage score read as 0
funding_leverage_or_zero(donation_leverage_score) == Or(donation_leverage_score, Num(0))

funding_leverage(donation_leverage_score) == Or(donation_leverage_score, Num(50))

control_impact(is_incumbent) == IF ~is_incumbent THEN Num(70) ELSE Num(60)

\* the weights of competitiveness and funding leverage exchanged
overall_score_swapped(competitiveness_score, funding_leverage_score, control_impact_score, grassroots) ==
    RAdd(RAdd(RAdd(RMul(competitiveness_score, Rat(35, 100)),
                   RMul(funding_leverage_score, Rat(3, 10))),
              RMul(control_impact_score, Rat(20, 100))),
         RMul(grassroots, Rat(15, 100)))

overall_score(competitiveness_score, funding_leverage_score, control_impact_score, grassroots) ==
    RAdd(RAdd(RAdd(RMul(competitiveness_score, Rat(3, 10)),
                   RMul(funding_leverage_score, Rat(35, 100))),
              RMul(control_impact_score, Rat(20, 100))),
         RMul(grassroots, Rat(15, 100)))

\* the loop body reading the rating stored on the race of the pair
ImpactRowRated(pair) ==
    LET competitiveness_score ==
            IF pair.race_id \in 1 .. Len(races)
            THEN Or(races[pair.race_id].competitiveness_score, Num(50))
            ELSE Num(50)
        funding_leverage_score == funding_leverage(pair.donation_leverage_score)
        control_impact_score == control_impact(pair.incumbent)
        grassroots == grassroots_potential(pair.small_dollar_percentage)
        overall == overall_score(competitiveness_score, funding_leverage_score,
                                 control_impact_score, grassroots)
    IN  [candidate_id |-> pair.candidate_id,
         race_id |-> pair.race_id,
         competitiveness_score |-> competitiveness_score,
         funding_leverage_score |-> funding_leverage_score,
         control_impact_score |-> control_impact_score,
         grassroots_potential_score |-> grassroots,
         overall_impact_score |-> overall,
         recommendation_tier |-> recommendation_tier(overall)]

\* the body of the loop over the joined rows (lines 609-642)
ImpactRow(pair) ==
    LET competitiveness_score == Num(50)
        funding_leverage_score == funding_leverage(pair.donation_leverage_score)
        control_impact_score == control_impact(pair.incumbent)
        grassroots == grassroots_potential(pair.small_dollar_percentage)
        overall == overall_score(competitiveness_score, funding_leverage_score,
                                 control_impact_score, grassroots)
    IN  [candidate_id |-> pair.candidate_id,
         race_id |-> pair.race_id,
         competitiveness_score |-> competitiveness_score,
         funding_leverage_score |-> funding_leverage_score,
         control_impact_score |-> control_impact_score,
         grassroots_potential_score |-> grassroots,
         overall_impact_score |-> overall,
         recommendation_tier |-> recommendation_tier(overall)]

\* the conflict key taken to be the candidate alone
SameCandidate(r, row) == r.candidate_id = row.candidate_id

SamePair(r, row) == r.candidate_id = row.candidate_id /\ r.race_id = row.race_id

\* a plain INSERT: the new row is appended and the old one kept
InsertAlways(table, row) == Append(table, row)

\* INSERT OR REPLACE under UNIQUE(candidate_id, race_id)
InsertOrReplace(table, row) ==
    SelectSeq(table, LAMBDA r : ~SamePair(r, row)) \o <<row>>

\* SQLite's order of two values: NULL before every number
SqlLess(x, y) ==
    IF IsNull(x) THEN ~IsNull(y) ELSE (~IsNull(y) /\ RLess(x, y))

\* finance row i is returned before finance row j
JoinBefore(i, j) ==
    LET a == campaign_finance[i]
        b == campaign_finance[j]
    IN  IF join_order = "rowid" THEN i < j
        ELSE \/ SqlLess(a.donation_leverage_score, b.donation_leverage_score)
             \/ /\ a.donation_leverage_score = b.donation_leverage_score
                /\ \/ SqlLess(a.small_dollar_percentage, b.small_dollar_percentage)
                   \/ /\ a.small_dollar_percentage = b.small_dollar_percentage
                      /\ i < j

FinanceOf(candidate_id) ==
    {i \in 1 .. Len(campaign_finance) : campaign_finance[i].candidate_id = candidate_id}

RECURSIVE FinanceInJoinOrder(_)
FinanceInJoinOrder(I) ==
    IF I = {} THEN << >>
    ELSE LET first == CHOOSE i \in I : \A j \in I \ {i} : JoinBefore(i, j)
         IN  <<campaign_finance[first]>> \o FinanceInJoinOrder(I \ {first})

\* rc JOIN candidates c LEFT JOIN campaign_finance cf, for one row of rc
JoinedRowsOf(link) ==
    IF link.candidate_id \notin CandidateIds THEN << >>
    ELSE LET incumbent == candidates[link.candidate_id].incumbent
             finance == FinanceInJoinOrder(FinanceOf(link.candidate_id))
         IN  IF finance = << >>
             THEN <<[race_id |-> link.race_id, candidate_id |-> link.candidate_id,
                     donation_leverage_score |-> NULL,
                     small_dollar_percentage |-> NULL,
                     incumbent |-> incumbent]>>
             ELSE [k \in 1 .. Len(finance) |->
                     [race_id |-> link.race_id, candidate_id |-> link.candidate_id,
                      donation_leverage_score |-> finance[k].donation_leverage_score,
                      small_dollar_percentage |-> finance[k].small_dollar_percentage,
                      incumbent |-> incumbent]]

LinkBefore(a, b) ==
    \/ a.race_id < b.race_id
    \/ a.race_id = b.race_id /\ a.candidate_id < b.candidate_id

\* the rows of the SELECT of lines 595-607, in the order SQLite returns them
RECURSIVE JoinedRows(_)
JoinedRows(links) ==
    IF links = {} THEN << >>
    ELSE LET first == CHOOSE a \in links : \A b \in links \ {a} : LinkBefore(a, b)
         IN  JoinedRowsOf(first) \o JoinedRows(links \ {first})

RECURSIVE WriteImpactRows(_, _)
WriteImpactRows(pairs, table) ==
    IF pairs = << >> THEN table
    ELSE WriteImpactRows(Tail(pairs), InsertOrReplace(table, ImpactRow(Head(pairs))))

CalculateImpactScores ==
    /\ args = NoArgs
    /\ impact_scores' = WriteImpactRows(JoinedRows(race_candidates), impact_scores)
    /\ UNCHANGED <<candidates, race_candidates, campaign_finance, join_order,
                   args, result, ingestvars, runvars>>

Init ==
    /\ DBEmpty
    /\ RunIdle
    /\ join_order \in {"rowid", "auto_index"}
    /\ args = NoArgs
    /\ result = NoResult

(***************************************************************************)
(* Spec: two candidates and two races; few finance figures.                *)
(***************************************************************************)
\* candidate records a fetch delivers: an incumbent and a challenger
CandidateRecords ==
    {[fec_candidate_id |-> Str(<<"H", "1">>), incumbent |-> TRUE],
     [fec_candidate_id |-> Str(<<"H", "2">>), incumbent |-> FALSE]}
RaceIds == {1, 2}
\* financial totals a fetch delivers, and the opponent figure passed with them
FinanceRecords ==
    {[receipts |-> NULL, individual |-> NULL, opponent |-> Num(80)],
     [receipts |-> Num(20), individual |-> Num(9), opponent |-> NULL],
     [receipts |-> Num(20), individual |-> Num(15), opponent |-> Num(80)]}

Next ==
    \/ \E c \in CandidateRecords : InsertCandidate(c.fec_candidate_id, c.incumbent)
    \/ \E candidate_id \in CandidateIds, race_id \in RaceIds :
          LinkCandidateToRace(candidate_id, race_id)
    \/ \E candidate_id \in CandidateIds, f \in FinanceRecords :
          InsertCampaignFinance(candidate_id, f.receipts, f.individual, f.opponent)
    \/ CalculateImpactScores

Spec == Init /\ [][Next]_vars

(***************************************************************************)
(* SpecFigures: one candidate in one race; every combination of figures.   *)
(***************************************************************************)
FigureCandidates == {Str(<<"H", "1">>)}
FigureRaceIds == {1}
FinanceReceipts == {NULL, Num(0), Num(20)}
FinanceIndividual == {NULL, Num(9), Num(15)}
OpponentReceipts == {NULL, Num(0), Num(10), Num(80)}

NextFigures ==
    \/ \E fec_id \in FigureCandidates, incumbent \in BOOLEAN :
          InsertCandidate(fec_id, incumbent)
    \/ \E candidate_id \in CandidateIds, race_id \in FigureRaceIds :
          LinkCandidateToRace(candidate_id, race_id)
    \/ \E candidate_id \in CandidateIds, receipts \in FinanceReceipts,
          individual \in FinanceIndividual, opponent \in OpponentReceipts :
          InsertCampaignFinance(candidate_id, receipts, individual, opponent)
    \/ CalculateImpactScores

SpecFigures == Init /\ [][NextFigures]_vars

(***************************************************************************)
(* SpecScore: the loop body of calculate_impact_scores on one joined row.  *)
(***************************************************************************)
\* donation_leverage_score and small_dollar_percentage as the SELECT may return them
LeverageColumn == {NULL} \cup {Num(k) : k \in {50, 52, 64, 76, 80, 85, 94}}
PercentageColumn ==
    {NULL, Num(0), Rat(5, 3), Num(25), Rat(131, 3), Num(45), Num(50), Num(75), Num(150)}

InitScore ==
    /\ DBEmpty
    /\ RunIdle
    /\ join_order = "rowid"
    /\ args \in [fn : {"impact_row"}, race_id : {1}, candidate_id : {1},
                 donation_leverage_score : LeverageColumn,
                 small_dollar_percentage : PercentageColumn,
                 incumbent : BOOLEAN]
    /\ result = NoResult

CallImpactRow ==
    /\ args.fn = "impact_row"
    /\ result = NoResult
    /\ result' = [fn |-> "impact_row", ret |-> ImpactRow(args)]
    /\ UNCHANGED <<dbvars, runvars, args>>

NextScore == CallImpactRow

SpecScore == InitScore /\ [][NextScore]_vars

(***************************************************************************)
(* SpecFinance: one direct call of insert_campaign_finance.                *)
(***************************************************************************)
\* a figure as the FEC totals or the caller may give it: absent, negative,
\* zero or positive
FetchedFigures == {NULL} \cup ReceiptArgs
FetchedIndividual == {NULL, Num(-1), Num(0), Num(3)}

InitFinance ==
    /\ DBEmpty
    /\ RunIdle
    /\ join_order = "rowid"
    /\ args \in [fn : {"insert_campaign_finance"}, candidate_id : {1},
                 receipts : FetchedFigures, individual_contributions : FetchedIndividual,
                 opponent_receipts : FetchedFigures]
    /\ result = NoResult

CallInsertCampaignFinance ==
    /\ args.fn = "insert_campaign_finance"
    /\ result = NoResult
    /\ LET row == FinanceRow(args.candidate_id, args.receipts,
                             args.individual_contributions, args.opponent_receipts)
       IN  /\ campaign_finance' = IF FinanceRaises(row) THEN campaign_finance
                                   ELSE Append(campaign_finance, row)
           /\ result' = [fn |-> "insert_campaign_finance",
                         raised |-> FinanceRaises(row), row |-> row]
    /\ UNCHANGED <<candidates, race_candidates, impact_scores, join_order, args,
                   ingestvars, runvars>>

NextFinance == CallInsertCampaignFinance

SpecFinance == InitFinance /\ [][NextFinance]_vars

(***************************************************************************)
(* insert_race                                                             *)
(***************************************************************************)
\* Python's dict.get(key, default)
Get(dict, key, default) == IF key \in DOMAIN dict THEN dict[key] ELSE default

DefaultGeneralDate == Str(<<"2", "0", "2", "6", "-", "1", "1", "-", "0", "3">>)

\* the values insert_race reads from race_data (lines 446-450)
RaceKey(race_data) ==
    [office |-> Get(race_data, "office", Str(<< >>)),
     state |-> Get(race_data, "state", NULL),
     district |-> Get(race_data, "district", NULL),
     general_date |-> Get(race_data, "general_date", DefaultGeneralDate)]

\* WHERE office = ? AND state = ? AND district = ? AND general_date = ?
ExistingRace(key) ==
    {i \in 1 .. Len(races) : /\ SqlEq(races[i].office, key.office)
                             /\ SqlEq(races[i].state, key.state)
                             /\ SqlEq(races[i].district, key.district)
                             /\ SqlEq(races[i].general_date, key.general_date)}

\* the row of lines 462-465; the rating columns are not set
RaceRow(key) ==
    [office |-> key.office, state |-> key.state, district |-> key.district,
     general_date |-> key.general_date,
     competitiveness_score |-> NULL, cook_rating |-> NULL]

\* the table after insert_race: unchanged when the SELECT found a row
RacesAfterInsert(race_data) ==
    IF ExistingRace(RaceKey(race_data)) # {} THEN races
    ELSE Append(races, RaceRow(RaceKey(race_data)))

\* the id insert_race returns: existing[0], or lastrowid
InsertedRaceId(race_data) ==
    LET found == ExistingRace(RaceKey(race_data))
    IN  IF found # {} THEN CHOOSE i \in found : \A j \in found : i <= j
        ELSE Len(races) + 1

(***************************************************************************)
(* SpecUpsert: direct calls of insert_candidate and insert_race, each      *)
(* leaving in `result` what it returned and the table it found.            *)
(***************************************************************************)
MaxRows == 3          \* calls are made while the table holds fewer rows

CallInsertCandidate(fec_id, incumbent) ==
    /\ args = NoArgs
    /\ Len(candidates) < MaxRows
    /\ candidates' = CandidatesAfterInsert(fec_id, incumbent)
    /\ result' = [fn |-> "insert_candidate", fec_id |-> fec_id, incumbent |-> incumbent,
                  ret |-> InsertedCandidateId(fec_id), before |-> candidates]
    /\ UNCHANGED <<race_candidates, campaign_finance, impact_scores, join_order, args,
                   ingestvars, runvars>>

CallInsertRace(race_data) ==
    /\ args = NoArgs
    /\ Len(races) < MaxRows
    /\ races' = RacesAfterInsert(race_data)
    /\ result' = [fn |-> "insert_race", key |-> RaceKey(race_data),
                  ret |-> InsertedRaceId(race_data), before |-> races]
    /\ UNCHANGED <<candidates, race_candidates, campaign_finance, impact_scores,
                   join_order, args, elections, issues, candidate_issues,
                   data_sources, district_demographics, runvars>>

USHouse == Str(<<"U", ".", "S", ".", " ", "H", "o", "u", "s", "e">>)
USSenate == Str(<<"U", ".", "S", ".", " ", "S", "e", "n", "a", "t", "e">>)
AZ == Str(<<"A", "Z">>)
District01 == Str(<<"0", "1">>)

\* identifiers of candidate records; an FEC record may come without one
UpsertFecIds == {Str(<<"H", "1">>), Str(<<"S", "1">>), NULL}
\* race_data as scrape_all_data builds it for a House and for a Senate race,
\* and a Senate race passed without its date
UpsertRaces ==
    {[office |-> USHouse, state |-> AZ, district |-> District01,
      race_type |-> "House", general_date |-> DefaultGeneralDate],
     [office |-> USSenate, state |-> AZ, district |-> NULL,
      race_type |-> "Senate", general_date |-> DefaultGeneralDate],
     [office |-> USSenate, state |-> AZ, district |-> NULL, race_type |-> "Senate"]}

NextUpsert ==
    \/ \E fec_id \in UpsertFecIds, incumbent \in BOOLEAN :
          CallInsertCandidate(fec_id, incumbent)
    \/ \E race_data \in UpsertRaces : CallInsertRace(race_data)

SpecUpsert == Init /\ [][NextUpsert]_vars

(***************************************************************************)
(* seed_issues and assign_candidate_issues                                 *)
(*                                                                         *)
(* A party label is a str of characters, so that upper() and the           *)
(* substring test are computed and not assumed.                            *)
(***************************************************************************)
LowerLetters == <<"a", "b", "c", "d", "e", "f", "g", "h", "i", "j", "k", "l", "m", "n", "o", "p", "q", "r", "s", "t", "u", "v", "w", "x", "y", "z">>
UpperLetters == <<"A", "B", "C", "D", "E", "F", "G", "H", "I", "J", "K", "L", "M", "N", "O", "P", "Q", "R", "S", "T", "U", "V", "W", "X", "Y", "Z">>

\* str.upper() on one character
UpperChar(c) ==
    IF \E k \in 1 .. Len(LowerLetters) : LowerLetters[k] = c
    THEN UpperLetters[CHOOSE k \in 1 .. Len(LowerLetters) : LowerLetters[k] = c]
    ELSE c
\* the label compared as it is written
upper_unchanged(str) == str

upper(str) == Str([k \in 1 .. Len(str.s) |-> UpperChar(str.s[k])])

\* Python's "sub in str" on strings
Contains(sub, str) ==
    \E k \in 0 .. (Len(str.s) - Len(sub.s)) :
        SubSeq(str.s, k + 1, k + Len(sub.s)) = sub.s

DEMOCRATIC == Str(<<"D", "E", "M", "O", "C", "R", "A", "T", "I", "C">>)
REPUBLICAN == Str(<<"R", "E", "P", "U", "B", "L", "I", "C", "A", "N">>)

democratic_priorities ==
    <<"Climate Change", "Healthcare Access", "Economic Justice",
      "Reproductive Rights", "LGBTQ+ Rights", "Voting Rights">>
republican_priorities ==
    <<"Crime & Safety", "Immigration Reform", "Economic Justice",
      "Gun Control", "Foreign Policy">>

\* the names seed_issues inserts, in its order
SeededIssues ==
    <<"Climate Change", "Healthcare Access", "Immigration Reform", "Economic Justice",
      "Crime & Safety", "Education", "Reproductive Rights", "Gun Control",
      "Voting Rights", "Housing Affordability", "Labor Rights", "LGBTQ+ Rights",
      "Racial Justice", "Foreign Policy", "Infrastructure">>

\* Python's "x in list"
InList(list, x) == \E k \in 1 .. Len(list) : list[k] = x
\* Python's list.index(x)
ListIndex(list, x) ==
    (CHOOSE k \in 1 .. Len(list) : list[k] = x /\ \A j \in 1 .. (k - 1) : list[j] # x) - 1

\* INSERT OR IGNORE under UNIQUE(name), one name after the other
RECURSIVE InsertIssues(_, _)
InsertIssues(names, table) ==
    IF names = << >> THEN table
    ELSE InsertIssues(Tail(names),
                      IF InList(table, Head(names)) THEN table
                      ELSE Append(table, Head(names)))

\* the priority taken to be the 0-based index of the list
zero_based_priority(list, issue_name) == ListIndex(list, issue_name)

\* lines 566 and 573
issue_priority(list, issue_name) == ListIndex(list, issue_name) + 1

\* the list the if/elif of lines 562-577 selects for the label
party_priorities(party) ==
    IF Contains(DEMOCRATIC, upper(party)) THEN democratic_priorities
    ELSE IF Contains(REPUBLICAN, upper(party)) THEN republican_priorities
    ELSE << >>

\* party.upper() on None raises AttributeError, in the first pass of the loop
AssignRaises(party) == IsNull(party) /\ issues # << >>

\* the rows the loop of lines 557-586 tries to insert; the inserts of the
\* issues in `failing` raise and are passed over by the bare except
PositionsToInsert(candidate_id, party, failing) ==
    {[candidate_id |-> candidate_id, issue_id |-> i,
      position |-> "Support", strength |-> "Strong",
      priority |-> issue_priority(party_priorities(party), issues[i])] :
        i \in {k \in (1 .. Len(issues)) \ failing :
                  InList(party_priorities(party), issues[k])}}

\* the candidate's earlier positions deleted before the new ones are stored
ReplacePositionsOfCandidate(table, rows) ==
    {t \in table : ~\E r \in rows : t.candidate_id = r.candidate_id} \cup rows

\* INSERT OR IGNORE under UNIQUE(candidate_id, issue_id)
InsertOrIgnorePositions(table, rows) ==
    table \cup {r \in rows : ~\E t \in table : /\ t.candidate_id = r.candidate_id
                                               /\ t.issue_id = r.issue_id}

\* candidate_issues after assign_candidate_issues(candidate_id, party)
AssignedIssues(candidate_id, party, failing) ==
    IF IsNull(party) THEN candidate_issues
    ELSE InsertOrIgnorePositions(candidate_issues,
                                 PositionsToInsert(candidate_id, party, failing))

PositionsOf(candidate_id) == {r \in candidate_issues : r.candidate_id = candidate_id}

SeedIssues ==
    /\ args = NoArgs
    /\ issues' = InsertIssues(SeededIssues, issues)
    /\ result' = [fn |-> "seed_issues"]
    /\ UNCHANGED <<candidates, race_candidates, campaign_finance, impact_scores,
                   join_order, args, elections, races, candidate_issues,
                   data_sources, district_demographics, runvars>>

AssignCandidateIssues(candidate_id, party) ==
    /\ args = NoArgs
    /\ candidate_issues' = AssignedIssues(candidate_id, party, {})
    /\ result' = [fn |-> "assign_candidate_issues",
                  candidate_id |-> candidate_id, party |-> party,
                  raised |-> AssignRaises(party),
                  before |-> PositionsOf(candidate_id)]
    /\ UNCHANGED <<candidates, race_candidates, campaign_finance, impact_scores,
                   join_order, args, elections, races, issues, data_sources,
                   district_demographics, runvars>>

(***************************************************************************)
(* SpecIssues: the catalog seeded or not; two candidates; six labels.      *)
(***************************************************************************)
DemocraticParty == Str(<<"D", "e", "m", "o", "c", "r", "a", "t", "i", "c", " ", "P", "a", "r", "t", "y">>)
RepublicanParty == Str(<<"R", "e", "p", "u", "b", "l", "i", "c", "a", "n", " ", "P", "a", "r", "t", "y">>)
FarmerLabor == Str(<<"d", "e", "m", "o", "c", "r", "a", "t", "i", "c", "-", "f", "a", "r", "m", "e", "r", "-", "l", "a", "b", "o", "r">>)
Independent == Str(<<"I", "n", "d", "e", "p", "e", "n", "d", "e", "n", "t">>)
EmptyLabel == Str(<< >>)
LowerRepublican == Str(<<"r", "e", "p", "u", "b", "l", "i", "c", "a", "n">>)
DemocraticRepublican == Str(<<"D", "e", "m", "o", "c", "r", "a", "t", "i", "c", "-", "R", "e", "p", "u", "b", "l", "i", "c", "a", "n", " ", "P", "a", "r", "t", "y">>)
PartyLabels ==
    {DemocraticParty, RepublicanParty, FarmerLabor, LowerRepublican,
     DemocraticRepublican, Independent, EmptyLabel, NULL}
IssueCandidates == {1, 2}

NextIssues ==
    \/ SeedIssues
    \/ \E candidate_id \in IssueCandidates, party \in PartyLabels :
          AssignCandidateIssues(candidate_id, party)

SpecIssues == Init /\ [][NextIssues]_vars

(***************************************************************************)
(* The source connectors: log_source, fetch_fec_candidates,                *)
(* fetch_google_civic_elections.                                           *)
(*                                                                         *)
(* The network is a script: the responses the session returns to the       *)
(* successive requests of one fetch.  A response either raises (a          *)
(* connection error, an HTTP error status or an unparsable body all end in *)
(* the same except clause) or carries the parsed results.                  *)
(***************************************************************************)
FailedResponse == [status |-> "error"]
OkResponse(results) == [status |-> "ok", results |-> results]
\* str(e) of the exception a failed response raises
ErrorText == Str(<<"d", "o", "w", "n">>)

PerPageMax == 100
HouseLimit == 300
SenateLimit == 100

Min(a, b) == IF a < b THEN a ELSE b

\* the row log_source inserts
LogEntry(source_name, records, status, error) ==
    [source_name |-> source_name, records_added |-> records,
     status |-> status, error_message |-> error]

\* one pass of the body of the while loop (lines 77-105) on the response the
\* request gets: the records collected after it and how the loop goes on
PageIteration(limit, collected, response) ==
    IF response.status = "error" THEN [exit |-> "raised", candidates |-> collected]
    ELSE LET per_page == Min(PerPageMax, limit - Len(collected))
             results == response.results
         IN  IF results = << >> THEN [exit |-> "break", candidates |-> collected]
             ELSE IF Len(results) < per_page
                  THEN [exit |-> "break", candidates |-> collected \o results]
             ELSE [exit |-> "none", candidates |-> collected \o results]

\* the while loop of lines 76-105: the records collected when it ends, and
\* whether it ended by an exception.  A script that runs out answers no more.
RECURSIVE FecPages(_, _, _)
FecPages(limit, responses, collected) ==
    IF ~(Len(collected) < limit) THEN [raised |-> FALSE, candidates |-> collected]
    ELSE IF responses = << >> THEN [raised |-> TRUE, candidates |-> collected]
    ELSE LET pass == PageIteration(limit, collected, Head(responses))
         IN  IF pass.exit = "none" THEN FecPages(limit, Tail(responses), pass.candidates)
             ELSE [raised |-> pass.exit = "raised", candidates |-> pass.candidates]

\* the list returned without the cut to `limit` records
FetchOutcomeUncut(limit, pages) ==
    IF pages.raised
    THEN [ret |-> << >>, failed |-> TRUE,
          log |-> LogEntry("FEC API - Candidates", 0, "error", ErrorText)]
    ELSE [ret |-> pages.candidates, failed |-> FALSE,
          log |-> LogEntry("FEC API - Candidates", Len(pages.candidates),
                           "success", NULL)]

\* lines 107-114: what fetch_fec_candidates returns and the entry it logs
\* when the loop has ended
FetchOutcome(limit, pages) ==
    IF pages.raised
    THEN [ret |-> << >>, failed |-> TRUE,
          log |-> LogEntry("FEC API - Candidates", 0, "error", ErrorText)]
    ELSE [ret |-> SubSeq(pages.candidates, 1, Min(limit, Len(pages.candidates))),
          failed |-> FALSE,
          log |-> LogEntry("FEC API - Candidates", Len(pages.candidates),
                           "success", NULL)]

\* the except clause returning and logging what the earlier pages delivered
fetch_fec_candidates_keeping_pages(limit, responses) ==
    LET pages == FecPages(limit, responses, << >>)
    IN  IF pages.raised
        THEN [ret |-> pages.candidates, failed |-> TRUE,
              log |-> LogEntry("FEC API - Candidates", Len(pages.candidates),
                               "error", ErrorText)]
        ELSE [ret |-> SubSeq(pages.candidates, 1, Min(limit, Len(pages.candidates))),
              failed |-> FALSE,
              log |-> LogEntry("FEC API - Candidates", Len(pages.candidates),
                               "success", NULL)]

\* what fetch_fec_candidates returns and the entry it logs
fetch_fec_candidates(limit, responses) ==
    FetchOutcome(limit, FecPages(limit, responses, << >>))

\* the except clause returning the empty list without a log entry
fetch_google_civic_elections_silent(key, response) ==
    IF ~key \/ response.status = "error"
    THEN [ret |-> << >>, failed |-> key, log |-> << >>]
    ELSE [ret |-> response.results, failed |-> FALSE,
          log |-> <<LogEntry("Google Civic API - Elections", Len(response.results),
                             "success", NULL)>>]

\* the request made whether or not a key is configured
fetch_google_civic_elections_unkeyed(key, response) ==
    IF response.status = "error"
    THEN [ret |-> << >>, failed |-> TRUE,
          log |-> <<LogEntry("Google Civic API - Elections", 0, "error", ErrorText)>>]
    ELSE [ret |-> response.results, failed |-> FALSE,
          log |-> <<LogEntry("Google Civic API - Elections", Len(response.results),
                             "success", NULL)>>]

\* what fetch_google_civic_elections returns and the entries it logs (none
\* without a key: the source is skipped before any request)
fetch_google_civic_elections(key, response) ==
    IF ~key THEN [ret |-> << >>, failed |-> FALSE, log |-> << >>]
    ELSE IF response.status = "error"
         THEN [ret |-> << >>, failed |-> TRUE,
               log |-> <<LogEntry("Google Civic API - Elections", 0, "error", ErrorText)>>]
    ELSE [ret |-> response.results, failed |-> FALSE,
          log |-> <<LogEntry("Google Civic API - Elections", Len(response.results),
                             "success", NULL)>>]

\* the record of one fetch: what it was served, returned and logged
FetchRecord(source, fetched, log_after) ==
    [run |-> runs, source |-> source, failed |-> fetched.failed,
     returned |-> fetched.ret, log_before |-> data_sources, log_after |-> log_after]

(***************************************************************************)
(* scrape_all_data: the steps of one run.                                  *)
(*                                                                         *)
(* A write may fail: the statement raises sqlite3.Error.  Which writes of  *)
(* a step fail is an input of the step.                                    *)
(***************************************************************************)
\* Python's truth value of a str or None
TruthyStr(x) == ~IsNull(x) /\ x.s # << >>

\* str.split(sep)
RECURSIVE SplitChars(_, _, _)
SplitChars(chars, sep, current) ==
    IF chars = << >> THEN <<Str(current)>>
    ELSE IF Head(chars) = sep
         THEN <<Str(current)>> \o SplitChars(Tail(chars), sep, << >>)
    ELSE SplitChars(Tail(chars), sep, Append(current, Head(chars)))
split(str, sep) == SplitChars(str.s, sep, << >>)

\* create_default_election(2026): the table it leaves
DefaultElection ==
    [election_date |-> DefaultGeneralDate, election_type |-> "General Election"]
ElectionsAfterDefault ==
    IF \E i \in 1 .. Len(elections) : elections[i] = DefaultElection THEN elections
    ELSE Append(elections, DefaultElection)

Incumbent == Str(<<"I", "n", "c", "u", "m", "b", "e", "n", "t">>)
\* the issue whose insert raises when the issue write of a step fails
FailingIssue == 1

\* a dict of the run, as the sequence of its items
CacheLookup(cache, race_key) == {k \in 1 .. Len(cache) : cache[k].race_key = race_key}

\* one pass of the loop over the House (lines 703-736) or the Senate
\* candidates (lines 750-779): the tables and the dict it leaves, and the
\* exception that leaves the loop, if any
WalkCandidate(candidate, senate, cache, env) ==
    LET fec_id == Get(candidate, "candidate_id", NULL)
        incumbent == Get(candidate, "incumbent_challenge_full", Str(<< >>)) = Incumbent
        candidate_id == InsertedCandidateId(fec_id)
        state == Get(candidate, "state", NULL)
        district == Get(candidate, "district", NULL)
        in_race == IF senate THEN TruthyStr(state)
                   ELSE TruthyStr(state) /\ TruthyStr(district)
        race_key == IF senate THEN state ELSE Str(state.s \o <<"-">> \o district.s)
        race_data == IF senate
                     THEN [office |-> USSenate, state |-> state, district |-> NULL,
                           race_type |-> "Senate", general_date |-> DefaultGeneralDate]
                     ELSE [office |-> USHouse, state |-> state, district |-> district,
                           race_type |-> "House", general_date |-> DefaultGeneralDate]
        cached == CacheLookup(cache, race_key)
        race_id == IF cached # {} THEN cache[CHOOSE k \in cached : TRUE].race_id
                   ELSE InsertedRaceId(race_data)
        party == Get(candidate, "party_full", Str(<< >>))
        financials == env.financials
        start == [candidates |-> candidates, races |-> races, cache |-> cache,
                  race_candidates |-> race_candidates,
                  candidate_issues |-> candidate_issues,
                  campaign_finance |-> campaign_finance, exception |-> "none"]
        inserted == [start EXCEPT !.candidates = CandidatesAfterInsert(fec_id, incumbent)]
        raced == IF cached # {} THEN inserted
                 ELSE [inserted EXCEPT
                         !.races = RacesAfterInsert(race_data),
                         !.cache = Append(cache, [race_key |-> race_key,
                                                  race_id |-> race_id])]
        linked == IF "link" \in env.fail THEN raced
                  ELSE [raced EXCEPT !.race_candidates =
                           @ \cup {[race_id |-> race_id, candidate_id |-> candidate_id]}]
        assigned == [linked EXCEPT !.candidate_issues =
                        AssignedIssues(candidate_id, party,
                                       IF "issue" \in env.fail THEN {FailingIssue} ELSE {})]
        row == FinanceRow(candidate_id, Get(financials, "receipts", Num(0)),
                          Get(financials, "individual_contributions", Num(0)), NULL)
        financed(tables) ==
            IF IsNull(financials) \/ FinanceRaises(row) \/ "finance" \in env.fail
            THEN tables
            ELSE [tables EXCEPT !.campaign_finance = Append(@, row)]
    IN  IF "candidate" \in env.fail THEN [start EXCEPT !.exception = "sqlite3.Error"]
        ELSE IF ~in_race THEN financed(inserted)
        ELSE IF cached = {} /\ "race" \in env.fail
             THEN [inserted EXCEPT !.exception = "sqlite3.Error"]
        ELSE IF AssignRaises(party) THEN [linked EXCEPT !.exception = "AttributeError"]
        ELSE financed(assigned)

\* the list fetch_ballotpedia_race_ratings returns
BallotpediaRatings ==
    <<[state |-> Str(<<"A", "Z">>), district |-> Str(<<"0", "1">>), rating |-> Str(<<"T", "o", "s", "s", "-", "u", "p">>), competitiveness |-> Num(50)],
      [state |-> Str(<<"C", "A">>), district |-> Str(<<"1", "3">>), rating |-> Str(<<"L", "e", "a", "n", " ", "D">>), competitiveness |-> Num(45)],
      [state |-> Str(<<"P", "A">>), district |-> Str(<<"0", "7">>), rating |-> Str(<<"T", "o", "s", "s", "-", "u", "p">>), competitiveness |-> Num(50)],
      [state |-> Str(<<"M", "I">>), district |-> Str(<<"0", "3">>), rating |-> Str(<<"L", "e", "a", "n", " ", "R">>), competitiveness |-> Num(55)],
      [state |-> Str(<<"N", "C">>), district |-> Str(<<"0", "1">>), rating |-> Str(<<"T", "o", "s", "s", "-", "u", "p">>), competitiveness |-> Num(50)],
      [state |-> Str(<<"T", "X">>), district |-> Str(<<"2", "3">>), rating |-> Str(<<"L", "e", "a", "n", " ", "R">>), competitiveness |-> Num(55)],
      [state |-> Str(<<"N", "V">>), district |-> Str(<<"0", "3">>), rating |-> Str(<<"T", "o", "s", "s", "-", "u", "p">>), competitiveness |-> Num(50)],
      [state |-> Str(<<"G", "A">>), district |-> Str(<<"0", "6">>), rating |-> Str(<<"L", "e", "a", "n", " ", "D">>), competitiveness |-> Num(45)]>>

\* the loop of lines 797-808: UPDATE races ... WHERE id = ? for the rated
\* districts this run has created or found
\* update_race_competitiveness: UPDATE races SET .. WHERE id = ?
RacesAfterUpdate(table, race_id, competitiveness_score, rating) ==
    [i \in 1 .. Len(table) |->
        IF i = race_id
        THEN [table[i] EXCEPT !.competitiveness_score = competitiveness_score,
                              !.cook_rating = rating]
        ELSE table[i]]

RECURSIVE RacesAfterRatings(_, _, _)
RacesAfterRatings(ratings, cache, table) ==
    IF ratings = << >> THEN table
    ELSE LET rating == Head(ratings)
             found == CacheLookup(cache, Str(rating.state.s \o <<"-">> \o rating.district.s))
             updated ==
                 IF found = {} THEN table
                 ELSE RacesAfterUpdate(table, cache[CHOOSE k \in found : TRUE].race_id,
                                       rating.competitiveness, rating.rating)
         IN  RacesAfterRatings(Tail(ratings), cache, updated)

\* what the census API returns for a district it knows
CensusRecord == [population |-> 760000, median_income |-> 61000, college_educated |-> 98000]

\* INSERT OR REPLACE under UNIQUE(state, district)
InsertOrReplaceDemographics(table, row) ==
    {r \in table : ~(SqlEq(r.state, row.state) /\ SqlEq(r.district, row.district))}
       \cup {row}

\* the loop of lines 813-818 over the first 20 districts of the run; `served`
\* are the districts the census API answers for, `failing` those whose write
\* raises; a key that does not split in two ends the run with ValueError
RECURSIVE WalkDistricts(_, _, _, _)
WalkDistricts(entries, table, served, failing) ==
    IF entries = << >> THEN [table |-> table, exception |-> "none"]
    ELSE LET race_key == Head(entries).race_key
             parts == split(race_key, "-")
         IN  IF Len(parts) # 2 THEN [table |-> table, exception |-> "ValueError"]
             ELSE WalkDistricts(
                    Tail(entries),
                    IF race_key \in served /\ race_key \notin failing
                    THEN InsertOrReplaceDemographics(
                           table,
                           [state |-> parts[1], district |-> parts[2],
                            population |-> CensusRecord.population,
                            median_income |-> CensusRecord.median_income,
                            college_educated_percentage |-> CensusRecord.college_educated])
                    ELSE table,
                    served, failing)

\* the loop of lines 609-656 when the inserts of the joined rows numbered in
\* `failing` raise: those rows are reported and passed over
RECURSIVE WriteImpactRowsExcept(_, _, _, _)
WriteImpactRowsExcept(pairs, table, failing, k) ==
    IF k > Len(pairs) THEN table
    ELSE WriteImpactRowsExcept(pairs,
                               IF k \in failing THEN table
                               ELSE InsertOrReplace(table, ImpactRow(pairs[k])),
                               failing, k + 1)

MaxRuns == 1          \* runs of scrape_all_data in one behaviour

\* the run stands at `at` and no exception has ended it
Running(at) == pc = at /\ exception = "none"
\* no run is in progress
NotRunning == pc \in {"idle", "done"} \/ exception # "none"

\* the scraper is constructed and scrape_all_data begins: lines 684-692
StartScrape(key) ==
    /\ args = NoArgs
    /\ NotRunning
    /\ runs < MaxRuns
    /\ google_civic_key' = key
    /\ runs' = runs + 1
    /\ elections' = ElectionsAfterDefault
    /\ pc' = "fetch_house"
    /\ exception' = "none"
    /\ house_candidates' = << >>
    /\ senate_candidates' = << >>
    /\ races_by_district' = << >>
    /\ senate_races' = << >>
    /\ UNCHANGED <<candidates, race_candidates, campaign_finance, impact_scores,
                   join_order, args, result, races, issues, candidate_issues,
                   data_sources, district_demographics, fetches>>

\* line 698
FetchHouse(responses) ==
    /\ Running("fetch_house")
    /\ LET fetched == fetch_fec_candidates(HouseLimit, responses)
           log_after == Append(data_sources, fetched.log)
       IN  /\ data_sources' = log_after
           /\ house_candidates' = fetched.ret
           /\ fetches' = Append(fetches, FetchRecord("house", fetched, log_after))
    /\ pc' = "house"
    /\ UNCHANGED <<candidates, race_candidates, campaign_finance, impact_scores,
                   join_order, args, result, elections, races, issues,
                   candidate_issues, district_demographics, google_civic_key, runs,
                   exception, senate_candidates, races_by_district, senate_races>>

\* one pass of the loop of lines 703-736
HouseCandidate(env) ==
    /\ Running("house")
    /\ house_candidates # << >>
    /\ LET out == WalkCandidate(Head(house_candidates), FALSE, races_by_district, env)
       IN  /\ candidates' = out.candidates
           /\ races' = out.races
           /\ races_by_district' = out.cache
           /\ race_candidates' = out.race_candidates
           /\ candidate_issues' = out.candidate_issues
           /\ campaign_finance' = out.campaign_finance
           /\ exception' = out.exception
           /\ house_candidates' = IF out.exception = "none" THEN Tail(house_candidates)
                                  ELSE house_candidates
    /\ UNCHANGED <<impact_scores, join_order, args, result, elections, issues,
                   data_sources, district_demographics, google_civic_key, runs, pc,
                   senate_candidates, senate_races, fetches>>

\* line 745, reached when the House loop is through
FetchSenate(responses) ==
    /\ Running("house")
    /\ house_candidates = << >>
    /\ LET fetched == fetch_fec_candidates(SenateLimit, responses)
           log_after == Append(data_sources, fetched.log)
       IN  /\ data_sources' = log_after
           /\ senate_candidates' = fetched.ret
           /\ fetches' = Append(fetches, FetchRecord("senate", fetched, log_after))
    /\ pc' = "senate"
    /\ UNCHANGED <<candidates, race_candidates, campaign_finance, impact_scores,
                   join_order, args, result, elections, races, issues,
                   candidate_issues, district_demographics, google_civic_key, runs,
                   exception, house_candidates, races_by_district, senate_races>>

\* one pass of the loop of lines 750-779
SenateCandidate(env) ==
    /\ Running("senate")
    /\ senate_candidates # << >>
    /\ LET out == WalkCandidate(Head(senate_candidates), TRUE, senate_races, env)
       IN  /\ candidates' = out.candidates
           /\ races' = out.races
           /\ senate_races' = out.cache
           /\ race_candidates' = out.race_candidates
           /\ candidate_issues' = out.candidate_issues
           /\ campaign_finance' = out.campaign_finance
           /\ exception' = out.exception
           /\ senate_candidates' = IF out.exception = "none" THEN Tail(senate_candidates)
                                   ELSE senate_candidates
    /\ UNCHANGED <<impact_scores, join_order, args, result, elections, issues,
                   data_sources, district_demographics, google_civic_key, runs, pc,
                   house_candidates, races_by_district, fetches>>

\* line 790, reached when the Senate loop is through
FetchGoogle(response) ==
    /\ Running("senate")
    /\ senate_candidates = << >>
    /\ LET fetched == fetch_google_civic_elections(google_civic_key, response)
           log_after == data_sources \o fetched.log
       IN  /\ data_sources' = log_after
           /\ fetches' = IF google_civic_key
                         THEN Append(fetches, FetchRecord("google", fetched, log_after))
                         ELSE fetches
    /\ pc' = "ratings"
    /\ UNCHANGED <<candidates, race_candidates, campaign_finance, impact_scores,
                   join_order, args, result, elections, races, issues,
                   candidate_issues, district_demographics, google_civic_key, runs,
                   exception, house_candidates, senate_candidates, races_by_district,
                   senate_races>>

\* the ratings step also scoring the pairs linked so far
ApplyRaceRatingsAndScore ==
    /\ Running("ratings")
    /\ data_sources' = Append(data_sources,
                              LogEntry("Ballotpedia - Race Ratings",
                                       Len(BallotpediaRatings), "success", NULL))
    /\ impact_scores' = WriteImpactRowsExcept(JoinedRows(race_candidates),
                                              impact_scores, {}, 1)
    /\ races' = RacesAfterRatings(BallotpediaRatings, races_by_district, races)
    /\ pc' = "demographics"
    /\ UNCHANGED <<candidates, race_candidates, campaign_finance,
                   join_order, args, result, elections, issues, candidate_issues,
                   district_demographics, google_civic_key, runs, exception,
                   house_candidates, senate_candidates, races_by_district,
                   senate_races, fetches>>

\* lines 793-808: fetch_ballotpedia_race_ratings and the rating updates
ApplyRaceRatings ==
    /\ Running("ratings")
    /\ data_sources' = Append(data_sources,
                              LogEntry("Ballotpedia - Race Ratings",
                                       Len(BallotpediaRatings), "success", NULL))
    /\ races' = RacesAfterRatings(BallotpediaRatings, races_by_district, races)
    /\ pc' = "demographics"
    /\ UNCHANGED <<candidates, race_candidates, campaign_finance, impact_scores,
                   join_order, args, result, elections, issues, candidate_issues,
                   district_demographics, google_civic_key, runs, exception,
                   house_candidates, senate_candidates, races_by_district,
                   senate_races, fetches>>

\* lines 811-831: the census loop; the Wikipedia loop after it only counts
FetchDemographics(served, failing) ==
    /\ Running("demographics")
    /\ LET out == WalkDistricts(SubSeq(races_by_district, 1,
                                       Min(20, Len(races_by_district))),
                                district_demographics, served, failing)
       IN  /\ district_demographics' = out.table
           /\ exception' = out.exception
           /\ pc' = IF out.exception = "none" THEN "calculate" ELSE pc
    /\ UNCHANGED <<candidates, race_candidates, campaign_finance, impact_scores,
                   join_order, args, result, elections, races, issues,
                   candidate_issues, data_sources, google_civic_key, runs,
                   house_candidates, senate_candidates, races_by_district,
                   senate_races, fetches>>

\* the aggregator also logging its pass in data_sources
calculate_impact_scores_logging(failing) ==
    /\ Running("calculate")
    /\ impact_scores' = WriteImpactRowsExcept(JoinedRows(race_candidates),
                                              impact_scores, failing, 1)
    /\ data_sources' = Append(data_sources,
                              LogEntry("Impact Scores", Len(JoinedRows(race_candidates)),
                                       "success", NULL))
    /\ pc' = "done"
    /\ UNCHANGED <<candidates, race_candidates, campaign_finance, join_order, args,
                   result, elections, races, issues, candidate_issues,
                   district_demographics, google_civic_key, runs, exception,
                   house_candidates, senate_candidates, races_by_district,
                   senate_races, fetches>>

\* line 834 and the summary after it
ScrapeCalculateImpactScores(failing) ==
    /\ Running("calculate")
    /\ impact_scores' = WriteImpactRowsExcept(JoinedRows(race_candidates),
                                              impact_scores, failing, 1)
    /\ pc' = "done"
    /\ UNCHANGED <<candidates, race_candidates, campaign_finance, join_order, args,
                   result, ingestvars, google_civic_key, runs, exception,
                   house_candidates, senate_candidates, races_by_district,
                   senate_races, fetches>>

(***************************************************************************)
(* SpecScrape: runs of scrape_all_data on a database whose catalog is      *)
(* seeded or not, against a network that fails or serves few records.      *)
(***************************************************************************)
Challenger == Str(<<"C", "h", "a", "l", "l", "e", "n", "g", "e", "r">>)
\* FEC candidate records: a House incumbent, a House record and a record
\* without district whose party and incumbency are null, a Senate challenger
HouseDemocrat ==
    [candidate_id |-> Str(<<"H", "1">>), state |-> AZ, district |-> District01,
     party_full |-> DemocraticParty, incumbent_challenge_full |-> Incumbent]
HouseNoParty ==
    [candidate_id |-> Str(<<"H", "2">>), state |-> AZ, district |-> District01,
     party_full |-> NULL, incumbent_challenge_full |-> NULL]
HouseNoDistrict ==
    [candidate_id |-> Str(<<"H", "3">>), state |-> AZ, district |-> NULL,
     party_full |-> NULL, incumbent_challenge_full |-> NULL]
SenateRepublican ==
    [candidate_id |-> Str(<<"S", "1">>), state |-> AZ,
     party_full |-> RepublicanParty, incumbent_challenge_full |-> Challenger]

FullPage == [k \in 1 .. PerPageMax |-> HouseDemocrat]
HousePages ==
    {<< >>, <<HouseDemocrat>>, <<HouseNoParty>>, <<HouseNoDistrict>>,
     <<HouseDemocrat, HouseNoParty>>}
HouseScripts ==
    {<<FailedResponse>>, <<OkResponse(FullPage), FailedResponse>>}
       \cup {<<OkResponse(page)>> : page \in HousePages}
SenateScripts ==
    {<<FailedResponse>>, <<OkResponse(<< >>)>>, <<OkResponse(<<SenateRepublican>>)>>}
GoogleResponses == {FailedResponse, OkResponse(<<"2026 General Election">>)}
\* what fetch_fec_candidate_financials returns: nothing, null totals, totals
\* with 45% and with 75% of individual contributions
Financials ==
    {NULL,
     [receipts |-> NULL, individual_contributions |-> NULL],
     [receipts |-> Num(20), individual_contributions |-> Num(9)],
     [receipts |-> Num(20), individual_contributions |-> Num(15)]}
Writes == {"candidate", "race", "link", "issue", "finance"}
\* the writes that fail during one pass: none, one of them, or all
FailSets == {{}} \cup {{w} : w \in Writes} \cup {Writes}
StepInputs == [fail : FailSets, financials : Financials]
CachedKeys == {races_by_district[k].race_key : k \in 1 .. Len(races_by_district)}

NextScrape ==
    \/ NotRunning /\ SeedIssues
    \/ \E key \in BOOLEAN : StartScrape(key)
    \/ \E responses \in HouseScripts : FetchHouse(responses)
    \/ \E env \in StepInputs : HouseCandidate(env)
    \/ \E responses \in SenateScripts : FetchSenate(responses)
    \/ \E env \in StepInputs : SenateCandidate(env)
    \/ \E response \in GoogleResponses : FetchGoogle(response)
    \/ ApplyRaceRatings
    \/ \E served \in SUBSET CachedKeys :
          \E failing \in SUBSET served : FetchDemographics(served, failing)
    \/ \E failing \in SUBSET (1 .. Len(JoinedRows(race_candidates))) :
          ScrapeCalculateImpactScores(failing)

SpecScrape == Init /\ [][NextScrape]_vars

(***************************************************************************)
(* SpecRatings: one candidate in one House race, finance rows with and     *)
(* without an opponent figure, and ratings applied to the race at any time. *)
(***************************************************************************)
InsertRace(race_data) ==
    /\ args = NoArgs
    /\ races' = RacesAfterInsert(race_data)
    /\ UNCHANGED <<candidates, race_candidates, campaign_finance, impact_scores,
                   join_order, args, result, elections, issues, candidate_issues,
                   data_sources, district_demographics, runvars>>

UpdateRaceCompetitiveness(race_id, competitiveness_score, rating) ==
    /\ args = NoArgs
    /\ races' = RacesAfterUpdate(races, race_id, competitiveness_score, rating)
    /\ UNCHANGED <<candidates, race_candidates, campaign_finance, impact_scores,
                   join_order, args, result, elections, issues, candidate_issues,
                   data_sources, district_demographics, runvars>>

RatedRace ==
    [office |-> USHouse, state |-> AZ, district |-> District01,
     race_type |-> "House", general_date |-> DefaultGeneralDate]
\* ratings as fetch_ballotpedia_race_ratings lists them, and a safe seat
Ratings ==
    {[rating |-> Str(<<"T", "o", "s", "s", "-", "u", "p">>), competitiveness |-> Num(50)],
     [rating |-> Str(<<"L", "e", "a", "n", " ", "D">>), competitiveness |-> Num(45)],
     [rating |-> Str(<<"S", "a", "f", "e", " ", "R">>), competitiveness |-> Num(100)]}

NextRatings ==
    \/ \E fec_id \in FigureCandidates, incumbent \in BOOLEAN :
          InsertCandidate(fec_id, incumbent)
    \/ InsertRace(RatedRace)
    \/ \E candidate_id \in CandidateIds, race_id \in FigureRaceIds :
          LinkCandidateToRace(candidate_id, race_id)
    \/ \E candidate_id \in CandidateIds, f \in FinanceRecords :
          InsertCampaignFinance(candidate_id, f.receipts, f.individual, f.opponent)
    \/ \E race_id \in FigureRaceIds, r \in Ratings :
          UpdateRaceCompetitiveness(race_id, r.competitiveness, r.rating)
    \/ CalculateImpactScores

SpecRatings == Init /\ [][NextRatings]_vars

(***************************************************************************)
(* SpecPages: one call of fetch_fec_candidates, a pass of its loop per     *)
(* step, every pass answered by any response.                              *)
(***************************************************************************)
MaxSmallLimit == 4    \* limits 1 .. MaxSmallLimit, besides those of scrape_all_data

\* small limits, the two of scrape_all_data, and one just above a full page
Limits == (1 .. MaxSmallLimit) \cup {SenateLimit, PerPageMax + 1, HouseLimit}
\* lengths of a page: empty, one record, and around the per_page asked for
PageSizes(per_page) == {n \in {0, 1, per_page - 1, per_page, per_page + 1} : n >= 0}
Page(n, record) == [k \in 1 .. n |-> record]
PageRecords == {HouseDemocrat, HouseNoParty}

InitPages ==
    /\ DBEmpty
    /\ RunIdle
    /\ join_order = "rowid"
    /\ args \in [fn : {"fetch_fec_candidates"}, limit : Limits,
                 candidates : {<< >>}, page : {1}]
    /\ result = NoResult

InLoop == args.fn = "fetch_fec_candidates" /\ result = NoResult

\* one pass of the loop, the return included when the pass ends the loop
FetchPage(response) ==
    /\ InLoop
    /\ Len(args.candidates) < args.limit
    /\ LET pass == PageIteration(args.limit, args.candidates, response)
       IN  /\ args' = [args EXCEPT
                         !.candidates = pass.candidates,
                         !.page = IF Len(pass.candidates) > Len(args.candidates)
                                  THEN @ + 1 ELSE @]
           /\ result' =
                 IF pass.exit = "none" THEN NoResult
                 ELSE [fn |-> "fetch_fec_candidates",
                       out |-> FetchOutcome(args.limit,
                                            [raised |-> pass.exit = "raised",
                                             candidates |-> pass.candidates])]
    /\ UNCHANGED <<dbvars, runvars>>

\* the loop condition found false
FetchReturn ==
    /\ InLoop
    /\ ~(Len(args.candidates) < args.limit)
    /\ result' = [fn |-> "fetch_fec_candidates",
                  out |-> FetchOutcome(args.limit,
                                       [raised |-> FALSE, candidates |-> args.candidates])]
    /\ UNCHANGED <<dbvars, runvars, args>>

NextPages ==
    \/ FetchPage(FailedResponse)
    \/ \E n \in PageSizes(Min(PerPageMax, args.limit - Len(args.candidates))) :
          \E record \in PageRecords : FetchPage(OkResponse(Page(n, record)))
    \/ FetchReturn

\* the call goes on as long as it has not returned: the loop is sequential
\* code and every request ends, by an answer or by its timeout
SpecPagesFair == InitPages /\ [][NextPages]_vars /\ WF_vars(NextPages)

(***************************************************************************)
(* Properties of calculate_leverage_score (SpecLeverage)                   *)
(***************************************************************************)
LeverageReturned == result.fn = "calculate_leverage_score"
IsNumber(x) == ~IsNull(x) /\ ~IsExc(x)
InUnitRange(x) == IsNumber(x) /\ RLeq(Num(0), x) /\ RLeq(x, Num(100))
\* the call is one with R > 0, O > 0 and C in [0, 100]
LeverageInDomain ==
    /\ LeverageReturned
    /\ RLess(Num(0), args.R) /\ RLess(Num(0), args.O)
    /\ RLeq(Num(0), args.C) /\ RLeq(args.C, Num(100))

\* C1: for R > 0, O > 0 and C in [0, 100] the returned leverage score is a
\* number in [0, 100].
C1_LeverageInRange == LeverageInDomain => InUnitRange(result.ret)

\* the lowest score of the domain: ratio >= 1.5 in a race rated 0
C1_Witness == LeverageInDomain /\ result.ret = Num(12)

\* the funding component as the claim states it, on the integers R and O
ClaimedFundingComponent(R, O) ==
    IF 2 * R.n * O.d < O.n * R.d THEN 90
    ELSE IF 4 * R.n * O.d < 3 * O.n * R.d THEN 75
    ELSE IF R.n * O.d < O.n * R.d THEN 60
    ELSE IF 2 * R.n * O.d < 3 * O.n * R.d THEN 40
    ELSE 20
\* 0.6 * F + 0.4 * (100 - 2 * |C - 50|), exactly
ClaimedLeverage(R, O, C) ==
    LET dist == IF RLess(C, Num(50)) THEN RSub(Num(50), C) ELSE RSub(C, Num(50))
    IN  RAdd(Rat(6 * ClaimedFundingComponent(R, O), 10),
             RMul(Rat(4, 10), RSub(Num(100), RAdd(dist, dist))))

\* C2 as stated: the returned score equals 0.6 * F + 0.4 * (100 - 2*|C - 50|).
C2_Original == LeverageInDomain => result.ret = ClaimedLeverage(args.R, args.O, args.C)

\* C2 as amended: for R > 0, O > 0 and C in [0, 100] the returned score is
\* 0.6 * F + 0.4 * (100 - 2*|C - 50|) rounded to two decimals, F chosen by the
\* strict breakpoints (a ratio on a breakpoint takes the lower-scoring bucket);
\* leverage_score(100, 1000, 50) = 94.0 and leverage_score(100, 100, 50) = 64.0.
C2_LeverageFormula ==
    /\ LeverageInDomain =>
          result.ret = Round2(ClaimedLeverage(args.R, args.O, args.C))
    /\ calculate_leverage_score(Num(100), Num(1000), Num(50)) = Num(94)
    /\ calculate_leverage_score(Num(100), Num(100), Num(50)) = Num(64)

\* a ratio exactly on the breakpoint 0.5 scored in the 75 bucket: 0.6*75 + 40
C2_Witness ==
    /\ LeverageInDomain
    /\ args.R = Num(3) /\ args.O = Num(6) /\ args.C = Num(50)
    /\ result.ret = Num(85)

\* C3: with R <= 0 or O <= 0 the call returns 50.0 for every C and performs
\* no division; leverage_score(0, 1000, 50) = 50.0.
C3_NeutralDefault ==
    /\ (LeverageReturned /\ (RLeq(args.R, Num(0)) \/ RLeq(args.O, Num(0)))) =>
          (result.ret = Num(50) /\ ~result.divided)
    /\ calculate_leverage_score(Num(0), Num(1000), Num(50)) = Num(50)

\* a call with positive receipts against an opponent figure of zero
C3_Witness ==
    /\ LeverageReturned
    /\ args.R = Num(MaxReceipts) /\ args.O = Num(0) /\ args.C = Num(0)
    /\ result.ret = Num(50)

(***************************************************************************)
(* Properties of the impact-score aggregator                               *)
(***************************************************************************)
ImpactRowReturned == result.fn = "impact_row"

\* C4: for every processed pair, overall_impact_score = 0.30*competitiveness +
\* 0.35*funding_leverage + 0.20*control_impact + 0.15*grassroots, with
\* competitiveness the constant 50 and control_impact 60 for an incumbent and
\* 70 for a non-incumbent; a non-incumbent with leverage 80 and small-dollar
\* percentage 50 scores 72.0, tier "Medium-High Impact".
C4_OverallFormula ==
    ImpactRowReturned =>
        LET row == result.ret IN
        /\ row.competitiveness_score = Num(50)
        /\ row.control_impact_score = IF args.incumbent THEN Num(60) ELSE Num(70)
        /\ RMul(Num(100), row.overall_impact_score) =
               RAdd(RAdd(RMul(Num(30), row.competitiveness_score),
                         RMul(Num(35), row.funding_leverage_score)),
                    RAdd(RMul(Num(20), row.control_impact_score),
                         RMul(Num(15), row.grassroots_potential_score)))
        /\ (/\ ~args.incumbent
            /\ args.donation_leverage_score = Num(80)
            /\ args.small_dollar_percentage = Num(50)) =>
               (/\ row.funding_leverage_score = Num(80)
                /\ row.grassroots_potential_score = Num(100)
                /\ row.overall_impact_score = Num(72)
                /\ row.recommendation_tier = "Medium-High Impact")

\* the example of the claim has been scored
C4_Witness ==
    /\ ImpactRowReturned
    /\ ~args.incumbent
    /\ args.donation_leverage_score = Num(80)
    /\ args.small_dollar_percentage = Num(50)
    /\ result.ret.overall_impact_score = Num(72)

Rows(table) == {table[i] : i \in 1 .. Len(table)}
RowsOfPair(table, candidate_id, race_id) ==
    {i \in 1 .. Len(table) :
        table[i].candidate_id = candidate_id /\ table[i].race_id = race_id}

\* C5: the tier of every impact_scores row is decided by its overall score
\* alone, lower bounds closed: >= 75 High Impact, [60, 75) Medium-High Impact,
\* [45, 60) Medium Impact, < 45 Lower Priority; rows with equal overall score
\* have equal tier.
C5_TierByScore ==
    /\ \A i \in 1 .. Len(impact_scores) :
          LET score == impact_scores[i].overall_impact_score
              tier == impact_scores[i].recommendation_tier
          IN  /\ tier = "High Impact" <=> RLeq(Num(75), score)
              /\ tier = "Medium-High Impact" <=>
                    (RLeq(Num(60), score) /\ RLess(score, Num(75)))
              /\ tier = "Medium Impact" <=>
                    (RLeq(Num(45), score) /\ RLess(score, Num(60)))
              /\ tier = "Lower Priority" <=> RLess(score, Num(45))
    /\ \A i, j \in 1 .. Len(impact_scores) :
          impact_scores[i].overall_impact_score = impact_scores[j].overall_impact_score
             => impact_scores[i].recommendation_tier = impact_scores[j].recommendation_tier
    /\ recommendation_tier(Num(75)) = "High Impact"
    /\ recommendation_tier(Num(60)) = "Medium-High Impact"
    /\ recommendation_tier(Num(45)) = "Medium Impact"
    /\ recommendation_tier(Rat(4499, 100)) = "Lower Priority"

\* a row scored exactly 60.0 and tiered Medium-High, next to a Medium row
C5_Witness ==
    \E i, j \in 1 .. Len(impact_scores) :
        /\ impact_scores[i].overall_impact_score = Num(60)
        /\ impact_scores[i].recommendation_tier = "Medium-High Impact"
        /\ impact_scores[j].recommendation_tier = "Medium Impact"

\* C6: after any sequence of the four operations every impact_scores row has
\* its four component scores and its overall score within [0, 100].
C6_ScoresInRange ==
    \A i \in 1 .. Len(impact_scores) :
        /\ InUnitRange(impact_scores[i].competitiveness_score)
        /\ InUnitRange(impact_scores[i].funding_leverage_score)
        /\ InUnitRange(impact_scores[i].control_impact_score)
        /\ InUnitRange(impact_scores[i].grassroots_potential_score)
        /\ InUnitRange(impact_scores[i].overall_impact_score)

\* a row whose doubled percentage (150) was capped, with a computed leverage
C6_Witness ==
    \E i \in 1 .. Len(impact_scores), k \in 1 .. Len(campaign_finance) :
        /\ campaign_finance[k].candidate_id = impact_scores[i].candidate_id
        /\ campaign_finance[k].small_dollar_percentage = Num(75)
        /\ impact_scores[i].grassroots_potential_score = Num(100)
        /\ impact_scores[i].funding_leverage_score = Num(94)

\* what a run of the aggregator leaves in impact_scores, started from `table`
Aggregated(table) == WriteImpactRows(JoinedRows(race_candidates), table)

\* calculate_impact_scores has just completed on the present tables: a run
\* from this state ends in this state.  Every run ends in such a state, since
\* by C8_Idempotent a run from the state a run has left changes nothing.
AfterCalculate == Aggregated(impact_scores) = impact_scores

AtMostOneRowPerPair ==
    \A i, j \in 1 .. Len(impact_scores) :
        (/\ impact_scores[i].candidate_id = impact_scores[j].candidate_id
         /\ impact_scores[i].race_id = impact_scores[j].race_id) => i = j

OneRowPerLinkedPair ==
    /\ \A link \in race_candidates :
          Cardinality(RowsOfPair(impact_scores, link.candidate_id, link.race_id)) = 1
    /\ \A i \in 1 .. Len(impact_scores) :
          [race_id |-> impact_scores[i].race_id,
           candidate_id |-> impact_scores[i].candidate_id] \in race_candidates

\* C7: when calculate_impact_scores completes, impact_scores holds exactly one
\* row for every pair of race_candidates; and it never holds two rows for one
\* pair, however often the aggregator ran and however many finance rows exist.
C7_OneRowPerPair ==
    /\ AfterCalculate => OneRowPerLinkedPair
    /\ AtMostOneRowPerPair

\* a candidate with two finance rows linked to two races, a second candidate
\* linked too, and one row for each of the three pairs
C7_Witness ==
    /\ \E c \in CandidateIds :
          /\ Cardinality(FinanceOf(c)) = 2
          /\ Cardinality({link \in race_candidates : link.candidate_id = c}) = 2
    /\ Cardinality(race_candidates) = 3
    /\ Len(impact_scores) = 3
    /\ AfterCalculate

\* C8: a second run of the aggregator on unchanged candidates, links and
\* finance rows leaves the same rows as the first run, none added.
C8_Idempotent ==
    LET once == Aggregated(impact_scores)
        twice == Aggregated(once)
    IN  Rows(twice) = Rows(once) /\ Len(twice) = Len(once) /\ twice = once

\* the aggregator has run on two pairs, one of a candidate with two finance
\* rows; running it again changes nothing
C8_Witness ==
    /\ Len(impact_scores) >= 2
    /\ \E link \in race_candidates : Cardinality(FinanceOf(link.candidate_id)) = 2
    /\ AfterCalculate

\* the finance row was stored without strictly positive candidate and
\* opponent receipts
LacksPositivePair(f) ==
    ~(/\ RLess(Num(0), f.total_receipts)
      /\ ~IsNull(f.opponent_total_receipts)
      /\ RLess(Num(0), f.opponent_total_receipts))
NoLeverageData(candidate_id) ==
    \A k \in FinanceOf(candidate_id) : LacksPositivePair(campaign_finance[k])

NeutralLeverageRows ==
    \A link \in race_candidates :
        NoLeverageData(link.candidate_id) =>
            /\ RowsOfPair(impact_scores, link.candidate_id, link.race_id) # {}
            /\ \A i \in RowsOfPair(impact_scores, link.candidate_id, link.race_id) :
                  impact_scores[i].funding_leverage_score = Num(50)

\* C9: a linked candidate with no finance row, or with finance rows stored
\* without strictly positive candidate and opponent receipts, gets an
\* impact_scores row whose funding_leverage_score is 50.
C9_NeutralLeverage == AfterCalculate => NeutralLeverageRows

\* one linked candidate without any finance row and one whose only finance
\* rows lack a positive pair, both scored 50; a third row scored from data
C9_Witness ==
    /\ AfterCalculate
    /\ \E a, b \in race_candidates :
          /\ FinanceOf(a.candidate_id) = {}
          /\ FinanceOf(b.candidate_id) # {}
          /\ NoLeverageData(b.candidate_id)
          /\ RowsOfPair(impact_scores, a.candidate_id, a.race_id) # {}
          /\ RowsOfPair(impact_scores, b.candidate_id, b.race_id) # {}

\* the percentages the candidate's finance rows offer; none: unknown
PercentagesOf(candidate_id) ==
    IF FinanceOf(candidate_id) = {} THEN {NULL}
    ELSE {campaign_finance[k].small_dollar_percentage : k \in FinanceOf(candidate_id)}
\* min(100, 2 * percentage), an unknown percentage counting as `unknown`
ClaimedGrassroots(percentage, unknown) ==
    LET p == IF IsNull(percentage) \/ percentage = Num(0) THEN unknown ELSE percentage
        doubled == RAdd(p, p)
    IN  IF RLess(Num(100), doubled) THEN Num(100) ELSE doubled
GrassrootsRows(unknown) ==
    \A i \in 1 .. Len(impact_scores) :
        \E p \in PercentagesOf(impact_scores[i].candidate_id) :
            impact_scores[i].grassroots_potential_score = ClaimedGrassroots(p, unknown)

\* C10 as stated: grassroots_potential_score = min(100, 2 * small_dollar_percentage),
\* an unknown percentage counting as 0.
C10_Original == AfterCalculate => GrassrootsRows(Num(0))

\* C10 as amended: grassroots_potential_score = min(100, 2 * small_dollar_percentage),
\* where an unknown percentage (no finance row, a null percentage, or one
\* stored as 0) counts as 30, giving grassroots_potential_score = 60.
C10_Grassroots == AfterCalculate => GrassrootsRows(Num(30))

\* a pair scored 60 from a finance row whose percentage was stored as 0
C10_Witness ==
    \E i \in 1 .. Len(impact_scores) :
        /\ AfterCalculate
        /\ FinanceOf(impact_scores[i].candidate_id) # {}
        /\ \A k \in FinanceOf(impact_scores[i].candidate_id) :
              campaign_finance[k].small_dollar_percentage = Num(0)
        /\ impact_scores[i].grassroots_potential_score = Num(60)

(***************************************************************************)
(* Properties of assign_candidate_issues (SpecIssues)                      *)
(***************************************************************************)
\* the rank of an issue in the Democratic priority list, as the claim gives it
ClaimedDemocraticRank(issue_name) ==
    CASE issue_name = "Climate Change" -> 1
      [] issue_name = "Healthcare Access" -> 2
      [] issue_name = "Economic Justice" -> 3
      [] issue_name = "Reproductive Rights" -> 4
      [] issue_name = "LGBTQ+ Rights" -> 5
      [] issue_name = "Voting Rights" -> 6
      [] OTHER -> 0
\* one Support/Strong row, ranked, for every listed issue of the catalog
ClaimedDemocraticPositions(candidate_id) ==
    {[candidate_id |-> candidate_id, issue_id |-> i,
      position |-> "Support", strength |-> "Strong",
      priority |-> ClaimedDemocraticRank(issues[i])] :
        i \in {k \in 1 .. Len(issues) : ClaimedDemocraticRank(issues[k]) > 0}}
AssignedDemocratic ==
    /\ result.fn = "assign_candidate_issues"
    /\ result.party = DemocraticParty

\* C11 as stated: after assign_candidate_issues(candidate, "Democratic Party")
\* the candidate's rows are exactly the listed issues of the catalog, ranked,
\* and the candidate has no other positions.
C11_Original ==
    AssignedDemocratic =>
        PositionsOf(result.candidate_id) = ClaimedDemocraticPositions(result.candidate_id)

\* C11 as amended: after the call the candidate's rows are the positions it
\* held before the call together with exactly the listed issues of the catalog,
\* each "Support"/"Strong" with its 1-based rank; a candidate that held no
\* position before the call has no other positions.
C11_DemocraticIssues ==
    AssignedDemocratic =>
        /\ ~result.raised
        /\ PositionsOf(result.candidate_id) =
              result.before \cup ClaimedDemocraticPositions(result.candidate_id)
        /\ \A r \in ClaimedDemocraticPositions(result.candidate_id) :
              issues[r.issue_id] = democratic_priorities[r.priority]
        /\ result.before = {} =>
              PositionsOf(result.candidate_id) =
                  ClaimedDemocraticPositions(result.candidate_id)

\* a candidate without positions was assigned the six issues from the seeded catalog
C11_Witness ==
    /\ AssignedDemocratic
    /\ result.before = {}
    /\ Cardinality(PositionsOf(result.candidate_id)) = 6
    /\ \E r \in PositionsOf(result.candidate_id) :
          issues[r.issue_id] = "Voting Rights" /\ r.priority = 6

(***************************************************************************)
(* Properties of insert_campaign_finance (SpecFinance)                     *)
(***************************************************************************)
FinanceReturned == result.fn = "insert_campaign_finance"
\* the figure is present and strictly positive
Positive(x) == ~IsNull(x) /\ RLess(Num(0), x)

\* C12: insert_campaign_finance never raises on zero or missing figures and
\* stores its row; small_dollar_percentage is a quotient only when receipts > 0
\* and is the default 0 otherwise; funding_ratio is a quotient only when the
\* opponent receipts are > 0 and is null otherwise; calculate_leverage_score
\* reaches its division only when O > 0.
C12_GuardedRatios ==
    /\ FinanceReturned =>
          /\ ~result.raised
          /\ campaign_finance = <<result.row>>
          /\ ~Positive(args.receipts) => result.row.small_dollar_percentage = Num(0)
          /\ result.row.small_dollar_percentage # Num(0) =>
                /\ Positive(args.receipts)
                /\ RMul(result.row.small_dollar_percentage, args.receipts) =
                      RMul(Num(100), args.individual_contributions)
          /\ ~Positive(args.opponent_receipts) => IsNull(result.row.funding_ratio)
          /\ ~IsNull(result.row.funding_ratio) =>
                /\ Positive(args.opponent_receipts)
                /\ IsNumber(result.row.funding_ratio)
                /\ IsNumber(result.row.donation_leverage_score)
    /\ \A R \in ReceiptArgs, O \in ReceiptArgs :
          /\ ReachesDivision(R, O) => RLess(Num(0), O)
          /\ IsNumber(calculate_leverage_score(R, O, Num(50)))

\* individual contributions without receipts, against an opponent figure of
\* zero: the row is stored with percentage 0 and a null ratio
C12_Witness ==
    /\ FinanceReturned
    /\ args.receipts = Num(0)
    /\ args.individual_contributions = Num(3)
    /\ args.opponent_receipts = Num(0)
    /\ Len(campaign_finance) = 1
    /\ campaign_finance[1].small_dollar_percentage = Num(0)
    /\ IsNull(campaign_finance[1].funding_ratio)

\* C13: when the fetched receipts figure is null and a positive opponent
\* figure is supplied, funding_ratio and funding_gap are stored as null, not
\* as values computed from receipts = 0.
C13_NullNotZero ==
    (FinanceReturned /\ IsNull(args.receipts) /\ Positive(args.opponent_receipts)) =>
        \A k \in 1 .. Len(campaign_finance) :
            /\ IsNull(campaign_finance[k].funding_ratio)
            /\ IsNull(campaign_finance[k].funding_gap)

(***************************************************************************)
(* Properties of insert_candidate and insert_race (SpecUpsert)             *)
(***************************************************************************)
CandidateInserted == result.fn = "insert_candidate"
\* the rows that carried the identifier of the call before the call
RowsBefore == {i \in 1 .. Len(result.before) :
                  result.before[i].fec_candidate_id = result.fec_id}
\* the call was made with an identifier already present
IdentifierPresent == CandidateInserted /\ ~IsNull(result.fec_id) /\ RowsBefore # {}

\* C18: the candidates table holds at most one row per FEC identifier; a call
\* with an identifier already present adds no row, updates that row in place
\* and returns its id.
C18_OneRowPerIdentifier ==
    /\ \A i, j \in CandidateIds :
          (/\ ~IsNull(candidates[i].fec_candidate_id)
           /\ candidates[i].fec_candidate_id = candidates[j].fec_candidate_id) => i = j
    /\ IdentifierPresent =>
          /\ Len(candidates) = Len(result.before)
          /\ RowsBefore = {result.ret}
          /\ candidates[result.ret] = [fec_candidate_id |-> result.fec_id,
                                       incumbent |-> result.incumbent]
          /\ \A i \in CandidateIds : i # result.ret => candidates[i] = result.before[i]

\* the second of two rows, inserted as a challenger, updated to an incumbent
C18_Witness ==
    /\ IdentifierPresent
    /\ result.ret = 2
    /\ Len(candidates) = 2
    /\ ~result.before[2].incumbent
    /\ candidates[2].incumbent

RaceInserted == result.fn = "insert_race"
KeyOfRace(row) ==
    [office |-> row.office, state |-> row.state, district |-> row.district,
     general_date |-> row.general_date]

\* C19: the races table holds at most one row per key (office, state,
\* district, general_date), a null district included, and a call with a key
\* already present returns the id of the existing row.
C19_RaceUpsert ==
    /\ \A i, j \in 1 .. Len(races) : KeyOfRace(races[i]) = KeyOfRace(races[j]) => i = j
    /\ RaceInserted =>
          \A i \in 1 .. Len(result.before) :
              KeyOfRace(result.before[i]) = result.key => result.ret = i

(***************************************************************************)
(* Properties of the finance table (Spec)                                  *)
(***************************************************************************)
\* C20: after any sequence of insert_campaign_finance calls campaign_finance
\* holds at most one row for a candidate, the one inserted last.
C20_FinanceReplaced ==
    \A candidate_id \in CandidateIds :
        /\ Cardinality(FinanceOf(candidate_id)) <= 1
        /\ (/\ campaign_finance # << >>
            /\ campaign_finance[Len(campaign_finance)].candidate_id = candidate_id) =>
               FinanceOf(candidate_id) = {Len(campaign_finance)}

(***************************************************************************)
(* Properties of scrape_all_data (SpecScrape)                              *)
(***************************************************************************)
SourceName(source) ==
    IF source = "google" THEN "Google Civic API - Elections" ELSE "FEC API - Candidates"
IsPrefix(a, b) == Len(a) <= Len(b) /\ SubSeq(b, 1, Len(a)) = a
FetchesOfRun == SelectSeq(fetches, LAMBDA f : f.run = runs)
SourcesFetched == [k \in 1 .. Len(FetchesOfRun) |-> FetchesOfRun[k].source]
PastTheSources == pc \in {"ratings", "demographics", "calculate", "done"}

\* C14: a failed fetch of a source returns the empty list and appends exactly
\* one entry (status "error", 0 records, the error text) to data_sources; the
\* entries logged earlier stay as they were, in place; the failure raises
\* nothing and the run goes on to fetch the sources after it.
C14_FailedFetchLogged ==
    /\ \A k \in 1 .. Len(fetches) :
          LET f == fetches[k]
          IN  /\ IsPrefix(f.log_before, f.log_after)
              /\ IsPrefix(f.log_after, data_sources)
              /\ f.failed =>
                    /\ f.returned = << >>
                    /\ f.log_after =
                          Append(f.log_before,
                                 LogEntry(SourceName(f.source), 0, "error", ErrorText))
    /\ (/\ fetches # << >>
        /\ fetches[Len(fetches)].failed
        /\ fetches[Len(fetches)].run = runs) => exception = "none"
    /\ (PastTheSources /\ exception = "none") =>
          SourcesFetched = <<"house", "senate">>
                              \o (IF google_civic_key THEN <<"google">> ELSE << >>)

\* a run completed after the House and Google fetches failed and the Senate
\* fetch delivered a record
C14_Witness ==
    /\ pc = "done"
    /\ Len(fetches) = 3
    /\ fetches[1].failed
    /\ ~fetches[2].failed
    /\ fetches[2].returned # << >>
    /\ fetches[3].failed
    /\ Len(data_sources) = 4

\* C15: no write failure ends a run of scrape_all_data: sqlite3.Error never
\* leaves the run.
C15_WriteFailureTolerated == exception # "sqlite3.Error"

AllFetchesFailed ==
    /\ fetches # << >>
    /\ \A k \in 1 .. Len(fetches) : fetches[k].failed
RunStep ==
    \/ \E responses \in HouseScripts : FetchHouse(responses)
    \/ \E responses \in SenateScripts : FetchSenate(responses)
    \/ \E response \in GoogleResponses : FetchGoogle(response)
    \/ ApplyRaceRatings
    \/ FetchDemographics({}, {})
    \/ ScrapeCalculateImpactScores({})

\* C16: as long as every fetch made so far has failed, no exception has been
\* raised, no loop has a record to walk, the run has a next step until it is
\* complete, and the candidates, races, campaign_finance and impact_scores
\* tables are empty.
C16_AllFetchesFail ==
    AllFetchesFailed =>
        /\ exception = "none"
        /\ house_candidates = << >> /\ senate_candidates = << >>
        /\ pc # "done" => ENABLED RunStep
        /\ candidates = << >>
        /\ races = << >>
        /\ campaign_finance = << >>
        /\ impact_scores = << >>

\* a run with a Google key completed although its three fetches failed
C16_Witness ==
    /\ pc = "done"
    /\ AllFetchesFailed
    /\ Len(fetches) = 3
    /\ google_civic_key
    /\ candidates = << >>

\* C17: a candidate record with a null party label never stops the run:
\* AttributeError never leaves scrape_all_data.
C17_NullPartyTolerated == exception # "AttributeError"

(***************************************************************************)
(* Properties of calculate_impact_scores inside a run (SpecScrape)         *)
(***************************************************************************)
\* the step of the run that is the call of calculate_impact_scores
CalculateStep == pc = "calculate" /\ pc' = "done"
ScoreRows(table) == {table[k] : k \in 1 .. Len(table)}
\* the rows the loop body makes of the rows the SELECT returns
RowsFromJoin ==
    {ImpactRow(JoinedRows(race_candidates)[k]) :
        k \in 1 .. Len(JoinedRows(race_candidates))}

\* C21: the call of calculate_impact_scores leaves candidates, races,
\* race_candidates, campaign_finance, candidate_issues, elections and
\* data_sources as they were, and every row it writes is the loop body's
\* value of a row of the join of links, candidates and finance rows.
C21_CalculateFrame ==
    [][CalculateStep =>
          /\ UNCHANGED <<candidates, races, race_candidates, campaign_finance,
                         candidate_issues, elections, data_sources>>
          /\ ScoreRows(impact_scores') \ ScoreRows(impact_scores) \subseteq RowsFromJoin]_vars

\* a run has scored a linked candidate with a finance row and issue
\* positions
C21_Witness ==
    /\ pc = "done"
    /\ impact_scores # << >>
    /\ campaign_finance # << >>
    /\ candidate_issues # {}
    /\ races # << >>
    /\ Len(data_sources) >= 3

(***************************************************************************)
(* Symmetry of calculate_leverage_score in the rating (SpecLeverage)       *)
(***************************************************************************)
\* |C - 50|, by cases
DistanceFromTossUp(C) == IF RLess(C, Num(50)) THEN RSub(Num(50), C) ELSE RSub(C, Num(50))

\* C23: for R > 0, O > 0 and C in [0, 100] the competitiveness component is
\* 100 - 2*|C - 50|; the score at C equals the score at 100 - C, is at most
\* the score at C = 50, and at C = 0 or C = 100 is 0.6 times the funding
\* component.
C23_SymmetricAboutTossUp ==
    LeverageInDomain =>
        /\ competitiveness_component(args.C) =
              RSub(Num(100), RMul(Num(2), DistanceFromTossUp(args.C)))
        /\ result.ret = calculate_leverage_score(args.R, args.O, RSub(Num(100), args.C))
        /\ RLeq(result.ret, calculate_leverage_score(args.R, args.O, Num(50)))
        /\ args.C \in {Num(0), Num(100)} =>
              result.ret = RMul(Rat(6, 10), funding_component(RDiv(args.R, args.O)))

\* a candidate with a third of the opponent's receipts in a race rated 100:
\* 0.6 * 90
C23_Witness ==
    /\ LeverageInDomain
    /\ args.C = Num(100)
    /\ args.R = Num(1) /\ args.O = Num(3)
    /\ result.ret = Num(54)

(***************************************************************************)
(* The Google Civic source without a key (SpecScrape)                      *)
(***************************************************************************)
\* the step of the run that is the call of fetch_google_civic_elections
GoogleStep == Running("senate") /\ pc' # pc

\* C22: without a Google Civic key the call returns the empty list whatever
\* the service would answer, appends nothing to data_sources, is no fetch,
\* raises nothing, and the run goes on to the race ratings.
C22_GoogleSkipped ==
    [][(GoogleStep /\ ~google_civic_key) =>
          /\ \A response \in GoogleResponses :
                fetch_google_civic_elections(FALSE, response).ret = << >>
          /\ data_sources' = data_sources
          /\ fetches' = fetches
          /\ exception' = "none"
          /\ pc' = "ratings"]_vars

\* a run without a key completed: two fetches, and the log holds their
\* entries and the race ratings' only
C22_Witness ==
    /\ pc = "done"
    /\ ~google_civic_key
    /\ Len(fetches) = 2
    /\ Len(data_sources) = 3

(***************************************************************************)
(* The finance record the aggregator scores (Spec)                         *)
(***************************************************************************)
\* the finance row of the candidate inserted last
LatestFinance(candidate_id) ==
    campaign_finance[CHOOSE i \in FinanceOf(candidate_id) :
                        \A j \in FinanceOf(candidate_id) : j <= i]

\* C24: when calculate_impact_scores completes, the funding_leverage_score and
\* grassroots_potential_score of every pair of a candidate with finance rows
\* are those of the candidate's finance row inserted last.
C24_LatestFinanceScored ==
    AfterCalculate =>
        \A link \in race_candidates :
            (link.candidate_id \in CandidateIds /\ FinanceOf(link.candidate_id) # {}) =>
                \A i \in RowsOfPair(impact_scores, link.candidate_id, link.race_id) :
                    /\ impact_scores[i].funding_leverage_score =
                          funding_leverage(
                             LatestFinance(link.candidate_id).donation_leverage_score)
                    /\ impact_scores[i].grassroots_potential_score =
                          grassroots_potential(
                             LatestFinance(link.candidate_id).small_dollar_percentage)

(***************************************************************************)
(* Party matching of assign_candidate_issues (SpecIssues)                  *)
(***************************************************************************)
LowerChar(c) ==
    IF \E k \in 1 .. Len(UpperLetters) : UpperLetters[k] = c
    THEN LowerLetters[CHOOSE k \in 1 .. Len(UpperLetters) : UpperLetters[k] = c]
    ELSE c
lower(str) == Str([k \in 1 .. Len(str.s) |-> LowerChar(str.s[k])])
NamesDemocratic(party) ==
    Contains(Str(<<"d", "e", "m", "o", "c", "r", "a", "t", "i", "c">>), lower(party))
NamesRepublican(party) ==
    Contains(Str(<<"r", "e", "p", "u", "b", "l", "i", "c", "a", "n">>), lower(party))

\* assign_candidate_issues was called with a label
AssignedLabel ==
    /\ result.fn = "assign_candidate_issues"
    /\ ~IsNull(result.party)
\* the catalog issues of a priority list
ListedIssues(list) == {i \in 1 .. Len(issues) : \E r \in 1 .. Len(list) : list[r] = issues[i]}
\* one Support/Strong row for each of them, with its 1-based rank
ListedPositions(candidate_id, list) ==
    {[candidate_id |-> candidate_id, issue_id |-> i,
      position |-> "Support", strength |-> "Strong",
      priority |-> CHOOSE r \in 1 .. Len(list) : list[r] = issues[i]] :
        i \in ListedIssues(list)}
HeldBefore(issue_id) == \E r \in result.before : r.issue_id = issue_id
\* after the call the candidate holds a position on every catalog issue of
\* the list
CoveredBy(list) ==
    \A i \in ListedIssues(list) :
        \E r \in PositionsOf(result.candidate_id) : r.issue_id = i
\* after the call the candidate holds the earlier positions and, for every
\* catalog issue of the list not held before, the list's position
AssignedFrom(list) ==
    PositionsOf(result.candidate_id) =
        result.before \cup
        {r \in ListedPositions(result.candidate_id, list) : ~HeldBefore(r.issue_id)}

\* C25 as stated: a label naming the Democrats in any letter case is assigned
\* the Democratic list, a label naming the Republicans the Republican list,
\* and a label naming neither is assigned nothing.
C25_Original ==
    AssignedLabel =>
        /\ NamesDemocratic(result.party) => CoveredBy(democratic_priorities)
        /\ NamesRepublican(result.party) => CoveredBy(republican_priorities)
        /\ (~NamesDemocratic(result.party) /\ ~NamesRepublican(result.party)) =>
              PositionsOf(result.candidate_id) = result.before

\* C25 as amended: a label naming the Democrats in any letter case is assigned
\* the Democratic list and nothing else, also when it names the Republicans
\* too; a label naming the Republicans and not the Democrats is assigned the
\* Republican list; a label naming neither, the empty label included, is
\* assigned nothing.
C25_PartyMatching ==
    AssignedLabel =>
        /\ ~result.raised
        /\ NamesDemocratic(result.party) => AssignedFrom(democratic_priorities)
        /\ (~NamesDemocratic(result.party) /\ NamesRepublican(result.party)) =>
              AssignedFrom(republican_priorities)
        /\ (~NamesDemocratic(result.party) /\ ~NamesRepublican(result.party)) =>
              PositionsOf(result.candidate_id) = result.before

\* a candidate without positions, labelled "Democratic-Republican Party", was
\* assigned the six Democratic issues of the seeded catalog and not Gun Control
C25_Witness ==
    /\ AssignedLabel
    /\ result.party = DemocraticRepublican
    /\ result.before = {}
    /\ Cardinality(PositionsOf(result.candidate_id)) = 6
    /\ \E i \in 1 .. Len(issues) :
          /\ issues[i] = "Gun Control"
          /\ ~\E r \in PositionsOf(result.candidate_id) : r.issue_id = i

(***************************************************************************)
(* assign_candidate_issues only adds (SpecIssues)                          *)
(***************************************************************************)
AssignReturned == result.fn = "assign_candidate_issues" /\ ~result.raised

\* C29: no step removes or alters a row of candidate_issues; after a call of
\* assign_candidate_issues a second call with the same label would leave the
\* table as it is; and the candidate holds every position it held before
\* the call, with the priority it had.
C29_AddOnly ==
    /\ [][candidate_issues \subseteq candidate_issues']_vars
    /\ [](AssignReturned =>
            /\ AssignedIssues(result.candidate_id, result.party, {}) = candidate_issues
            /\ result.before \subseteq PositionsOf(result.candidate_id)
            /\ \A r, t \in candidate_issues :
                  (r.candidate_id = t.candidate_id /\ r.issue_id = t.issue_id) => r = t)

\* a candidate holding the six Democratic positions was assigned again under
\* a Republican label: it keeps Climate Change with priority 1 and holds the
\* four Republican issues it did not hold
C29_Witness ==
    /\ AssignReturned
    /\ result.party = RepublicanParty
    /\ Cardinality(result.before) = 6
    /\ Cardinality(PositionsOf(result.candidate_id)) = 10
    /\ \E r \in result.before : issues[r.issue_id] = "Climate Change" /\ r.priority = 1

(***************************************************************************)
(* Order of ingestion and scoring in a run (SpecScrape)                    *)
(***************************************************************************)
\* C26: impact_scores is written by the calculate step of a run only, and
\* from the moment a run stands before that step until the next run starts
\* no candidate, race, link, issue position or finance row is written and no
\* race rating is updated.
C26_ScoredAfterIngestion ==
    [][/\ impact_scores' # impact_scores => CalculateStep
       /\ (pc = "calculate" \/ (pc = "done" /\ pc' = "done")) =>
             UNCHANGED <<candidates, races, race_candidates, candidate_issues,
                         campaign_finance>>]_vars

\* a run has scored a pair whose race carries a rating
C26_Witness ==
    /\ pc = "done"
    /\ \E i \in 1 .. Len(impact_scores) :
          /\ impact_scores[i].race_id \in 1 .. Len(races)
          /\ ~IsNull(races[impact_scores[i].race_id].competitiveness_score)

(***************************************************************************)
(* Finance rows and scores of a freshly ingested database (SpecScrape)     *)
(***************************************************************************)
\* C27: every campaign_finance row a run writes has null
\* opponent_total_receipts, funding_gap, funding_ratio and
\* donation_leverage_score; every impact_scores row has funding_leverage_score
\* 50 and an overall score of at most 61.5, and none is tiered "High Impact".
C27_NoOpponentFigure ==
    /\ \A k \in 1 .. Len(campaign_finance) :
          /\ IsNull(campaign_finance[k].opponent_total_receipts)
          /\ IsNull(campaign_finance[k].funding_gap)
          /\ IsNull(campaign_finance[k].funding_ratio)
          /\ IsNull(campaign_finance[k].donation_leverage_score)
    /\ \A i \in 1 .. Len(impact_scores) :
          /\ impact_scores[i].funding_leverage_score = Num(50)
          /\ RLeq(impact_scores[i].overall_impact_score, Rat(123, 2))
          /\ impact_scores[i].recommendation_tier # "High Impact"

\* a run has scored a challenger with 75% of individual contributions: 61.5
C27_Witness ==
    /\ pc = "done"
    /\ \E i \in 1 .. Len(impact_scores) :
          /\ impact_scores[i].overall_impact_score = Rat(123, 2)
          /\ FinanceOf(impact_scores[i].candidate_id) # {}

(***************************************************************************)
(* Race ratings and the stored scores (SpecRatings)                        *)
(***************************************************************************)
\* C28: a step that changes the races table, a rating update included,
\* leaves campaign_finance and impact_scores as they were; every stored
\* donation_leverage_score is the leverage score at C = 50 of the row's
\* receipts and opponent figure; every impact_scores row has competitiveness
\* 50; and the rows a pass of the aggregator leaves are values of the joined
\* link, candidate and finance rows, whatever the race is rated.
C28_RatingsDoNotInterfere ==
    /\ [][races' # races => UNCHANGED <<campaign_finance, impact_scores>>]_vars
    /\ [](\A k \in 1 .. Len(campaign_finance) :
             \/ IsNull(campaign_finance[k].donation_leverage_score)
             \/ campaign_finance[k].donation_leverage_score =
                   calculate_leverage_score(campaign_finance[k].total_receipts,
                                            campaign_finance[k].opponent_total_receipts,
                                            Num(50)))
    /\ [](\A i \in 1 .. Len(impact_scores) :
             impact_scores[i].competitiveness_score = Num(50))
    /\ [](AfterCalculate => ScoreRows(impact_scores) \subseteq RowsFromJoin)

\* the race is rated 100 (a safe seat); its candidate's finance row carries
\* the leverage 94 of a toss-up and the pair was scored with competitiveness 50
C28_Witness ==
    /\ races # << >>
    /\ races[1].competitiveness_score = Num(100)
    /\ \E k \in 1 .. Len(campaign_finance) :
          campaign_finance[k].donation_leverage_score = Num(94)
    /\ \E i \in 1 .. Len(impact_scores) :
          /\ impact_scores[i].race_id = 1
          /\ impact_scores[i].competitiveness_score = Num(50)
          /\ impact_scores[i].funding_leverage_score = Num(94)
    /\ AfterCalculate

(***************************************************************************)
(* The pagination loop of fetch_fec_candidates (SpecPagesFair)             *)
(***************************************************************************)
FetchReturned == result # NoResult

\* C30: whatever the responses, the call returns; every pass of the loop
\* either lengthens the list or ends the call; the list returned holds at
\* most `limit` records; and a call ended by a failed request returns the
\* empty list and logs one error entry of 0 records, the pages collected
\* before the failure dropped.
C30_PaginationTerminates ==
    /\ <>FetchReturned
    /\ [][(InLoop /\ Len(args.candidates) < args.limit) =>
             \/ Len(args'.candidates) > Len(args.candidates)
             \/ result' # NoResult]_vars
    /\ [](args.page <= args.limit + 1)
    /\ [](FetchReturned =>
            /\ Len(result.out.ret) <= args.limit
            /\ result.out.failed =>
                  /\ result.out.ret = << >>
                  /\ result.out.log =
                        LogEntry("FEC API - Candidates", 0, "error", ErrorText))

\* the third request of a call with limit 300 failed after two full pages:
\* nothing is returned
C30_Witness ==
    /\ FetchReturned
    /\ args.limit = HouseLimit
    /\ result.out.failed
    /\ Len(args.candidates) = 2 * PerPageMax
    /\ args.page = 3
    /\ result.out.ret = << >>

=============================================================================
